---- MODULE Spec2Model ----
(***************************************************************************)
(* Model of art::Transaction (runtime/transaction.cc): the per-kind undo   *)
(* logs, Abort, Rollback and the collector's VisitRoots pass.              *)
(*                                                                         *)
(* Memory is modelled as raw bits.  A 64-bit word is a tuple of four       *)
(* 16-bit limbs <<l3, l2, l1, l0>> (most significant first), so that the   *)
(* widenings done when a value is logged and the narrowings done when it   *)
(* is written back are computed, not assumed.                              *)
(*                                                                         *)
(* The heap has four regions (objects, classes, strings, dex caches), each *)
(* addressed by Addr.  A collection applies one permutation of Addr to     *)
(* every region.                                                           *)
(***************************************************************************)
EXTENDS Integers, Sequences, FiniteSets, TLC

\* ------------------------------------------------------------------ bounds
MaxAddr == 3
MaxOps == 2
ArrayLen == 2
NumSlots == 3
NumThreads == 2

\* ------------------------------------------------------- program constants
NULL == 0
ClassOffset == 0
LengthOffset == 8

Addr == 1..MaxAddr
Offsets == {ClassOffset, LengthOffset, 12}
Indices == 0..(ArrayLen - 1)
Slots == 0..(NumSlots - 1)
Messages == {"first", "second"}

\* ----------------------------------------------------------- 64-bit words
V(n) == <<0, 0, 0, n>>

ZeroExt8(w) == <<0, 0, 0, w[4] % 256>>
ZeroExt16(w) == <<0, 0, 0, w[4]>>
ZeroExt32(w) == <<0, 0, w[3], w[4]>>
SignExt8(w) == IF (w[4] % 256) >= 128 THEN <<65535, 65535, 65535, 65280 + (w[4] % 256)>> ELSE <<0, 0, 0, w[4] % 256>>
SignExt16(w) == IF w[4] >= 32768 THEN <<65535, 65535, 65535, w[4]>> ELSE <<0, 0, 0, w[4]>>
SignExt32(w) == IF w[3] >= 32768 THEN <<65535, 65535, w[3], w[4]>> ELSE <<0, 0, w[3], w[4]>>

\* static_cast<float>(uint64_t) and static_cast<double>(uint64_t): the IEEE 754
\* bits of the number the word holds (round to nearest even).  Computed for
\* the words below 2^31, the only ones a float or double array of the model
\* holds.
FloorLog2(n) == CHOOSE e \in 0..30 : 2^e <= n /\ n < 2^(e + 1)

U64ToFloat(w) ==
    CASE w[1] = 0 /\ w[2] = 0 /\ w[3] < 32768 ->
        LET n == w[3] * 65536 + w[4]
        IN  IF n = 0
            THEN V(0)
            ELSE LET e == FloorLog2(n)
                     d == IF e > 23 THEN 2^(e - 23) ELSE 1
                     q == n \div d
                     r == n % d
                     m == IF e <= 23
                          THEN n * 2^(23 - e)
                          ELSE IF 2 * r > d \/ (2 * r = d /\ q % 2 = 1) THEN q + 1 ELSE q
                     bits == (e + 127) * 2^23 + (m - 2^23)
                 IN  <<0, 0, bits \div 65536, bits % 65536>>

U64ToDouble(w) ==
    CASE w[1] = 0 /\ w[2] = 0 /\ w[3] < 32768 ->
        LET n == w[3] * 65536 + w[4]
        IN  IF n = 0
            THEN V(0)
            ELSE LET e == FloorLog2(n)
                     m == (n - 2^e) * 2^(30 - e)
                 IN  <<(e + 1023) * 16 + (m \div 2^26), (m \div 1024) % 65536, (m % 1024) * 64, 0>>

\* A word read as a pointer: the address it holds, NULL for the null pointer,
\* and -1 for a bit pattern that is no address of the heap.
AsPointer(w) == IF w[1] = 0 /\ w[2] = 0 /\ w[3] = 0 /\ w[4] \in Addr \cup {NULL} THEN w[4] ELSE -1

\* ------------------------------------------------------------- finite maps
EmptyMap == [x \in {} |-> NULL]
Put(m, k, v) == [x \in (DOMAIN m) \cup {k} |-> IF x = k THEN v ELSE m[x]]
Erase(m, k) == [x \in (DOMAIN m) \ {k} |-> m[x]]
Min(S) == CHOOSE x \in S : \A y \in S : x <= y

\* ------------------------------------------------------------ object model
\* Field kinds of the modelled classes: every object has its class at
\* ClassOffset; an array has its length at LengthOffset; an instance has a
\* 32-bit field at offset 8 and a reference field at offset 12.
FieldKindAt(type, off) ==
    CASE off = ClassOffset -> "kReference"
      [] off = LengthOffset -> "k32Bits"
      [] OTHER -> IF type = "instance" THEN "kReference" ELSE "none"

ZeroFields == [off \in Offsets |-> V(0)]
ZeroElems == [i \in Indices |-> V(0)]
FreeCell == [type |-> "free", ct |-> "none", f |-> ZeroFields, e |-> ZeroElems]
ArrayTypes == {"kPrimInt"}

\* Object X (an instance) at 1, array Y at 2; the rest of the region is free.
\* X.8 holds 0, X.12 refers to Y, every element of Y holds -1.
InitHeap(ct) ==
    [a \in Addr |->
        CASE a = 1 -> [type |-> "instance", ct |-> "none",
                       f |-> [off \in Offsets |-> CASE off = ClassOffset -> V(1) [] off = LengthOffset -> V(0) [] OTHER -> V(2)],
                       e |-> ZeroElems]
          [] a = 2 -> [type |-> "array", ct |-> ct,
                       f |-> [off \in Offsets |-> CASE off = ClassOffset -> V(2) [] off = LengthOffset -> V(ArrayLen) [] OTHER -> V(0)],
                       e |-> [i \in Indices |-> <<0, 0, 65535, 65535>>]]
          [] OTHER -> FreeCell]

\* Dex cache D at 1: slot 0 was resolved (to the string at 1) before the
\* transaction, the other slots are unresolved.
NoCache == [live |-> FALSE, strings |-> [i \in Slots |-> NULL]]
InitCache ==
    [a \in Addr |-> IF a = 1 THEN [live |-> TRUE, strings |-> [i \in Slots |-> IF i = 0 THEN 1 ELSE NULL]] ELSE NoCache]

VARIABLES
    heap,                   \* object region: Addr -> object
    strings,                \* string region: the addresses that hold a string
    strong,                 \* InternTable: strongly interned strings
    weak,                   \* InternTable: weakly interned strings
    cache,                  \* dex-cache region: Addr -> cache
    active,                 \* Runtime::IsActiveTransaction()
    aborted_,
    abort_message_,
    rolling_back_,
    root_,
    object_logs_,           \* object address -> (offset -> FieldValue)
    array_logs_,            \* array address -> (index -> word)
    intern_string_logs_,    \* list, most recent first
    resolve_string_logs_,   \* list, append order
    fatal,                  \* "none", or the CHECK that stopped the process
    orig,                   \* history: current address -> address at construction
    nops,                   \* history: number of Record* calls made
    hist                    \* history: the last operation and what it started from

VARIABLES
    strict_,                \* constructor argument, never written afterwards
    assert_no_new_records_reason_,  \* the reason of the installed assertion, NoReason if none
    heap_,                  \* gc::Heap: its boot image spaces
    log_lock_,              \* the thread that holds log_lock_, NoThread if free
    intern_table_lock_,     \* the thread that holds Locks::intern_table_lock_
    pc,                     \* thread -> where it stands in the operation it runs
    calls,                  \* history: the setter calls of the last Rollback
    given                   \* history: location -> arguments of its first Record* call

vars == <<heap, strings, strong, weak, cache, active, aborted_, abort_message_, rolling_back_, root_, object_logs_, array_logs_, intern_string_logs_, resolve_string_logs_, fatal, orig, nops, hist, strict_, heap_, log_lock_, intern_table_lock_, pc, calls, given, assert_no_new_records_reason_>>

\* ------------------------------------------------------------------ threads
\* assert_no_new_records_reason_ == nullptr.
NoReason == ""

NoThread == 0
Threads == 1..NumThreads
Idle == [at |-> "idle"]

\* A heap without boot image spaces (the build of the boot image itself).
NoBootImageSpaces == [spaces |-> 0, in_boot_image |-> {}, can_reference |-> {}]

\* One thread runs the operations one after the other: each finds both locks
\* free and leaves them free, and no other thread is inside an operation.
Uncontended ==
    /\ log_lock_ = NoThread
    /\ intern_table_lock_ = NoThread
    /\ \A t \in Threads : pc[t] = Idle
    /\ UNCHANGED <<strict_, heap_, log_lock_, intern_table_lock_, pc>>

Unasserted == Uncontended /\ UNCHANGED assert_no_new_records_reason_

Sequential == Unasserted /\ UNCHANGED <<calls, given>>

\* ---------------------------------------------------------------- ObjectLog
ObjectLog_LogValue(log, kind, offset, value, is_volatile) ==
    IF offset \in DOMAIN log
    THEN log
    ELSE Put(log, offset, [value |-> value, is_volatile |-> is_volatile, kind |-> kind])

ObjectLog_Log32BitsValue(log, offset, value, is_volatile) ==
    ObjectLog_LogValue(log, "k32Bits", offset, ZeroExt32(value), is_volatile)

ObjectLog_LogReferenceValue(log, offset, obj, is_volatile) ==
    ObjectLog_LogValue(log, "kReference", offset, obj, is_volatile)

ObjectLog_LogBooleanValue(log, offset, value, is_volatile) ==
    ObjectLog_LogValue(log, "kBoolean", offset, ZeroExt8(value), is_volatile)

ObjectLog_LogByteValue(log, offset, value, is_volatile) ==
    ObjectLog_LogValue(log, "kByte", offset, SignExt8(value), is_volatile)

ObjectLog_LogCharValue(log, offset, value, is_volatile) ==
    ObjectLog_LogValue(log, "kChar", offset, ZeroExt16(value), is_volatile)

ObjectLog_LogShortValue(log, offset, value, is_volatile) ==
    ObjectLog_LogValue(log, "kShort", offset, SignExt16(value), is_volatile)

ObjectLog_Log64BitsValue(log, offset, value, is_volatile) ==
    ObjectLog_LogValue(log, "k64Bits", offset, value, is_volatile)

\* The value a setter of the given kind stores: the static_cast (or implicit
\* conversion) of the 64-bit payload to the setter's parameter type.
NarrowTo(kind, value) ==
    CASE kind = "kBoolean" -> ZeroExt8(value)
      [] kind = "kByte" -> ZeroExt8(value)
      [] kind = "kChar" -> ZeroExt16(value)
      [] kind = "kShort" -> ZeroExt16(value)
      [] kind = "k32Bits" -> ZeroExt32(value)
      [] kind = "k64Bits" -> value
      [] kind = "kReference" -> value

\* Mutant: the plain setter is called whatever the entry says.
ObjectLog_UndoFieldWrite_Setter_Plain(field_value) ==
    [setter |-> CASE field_value.kind = "kBoolean" -> "SetFieldBoolean"
                  [] field_value.kind = "kByte" -> "SetFieldByte"
                  [] field_value.kind = "kChar" -> "SetFieldChar"
                  [] field_value.kind = "kShort" -> "SetFieldShort"
                  [] field_value.kind = "k32Bits" -> "SetField32"
                  [] field_value.kind = "k64Bits" -> "SetField64"
                  [] field_value.kind = "kReference" -> "SetFieldObject",
     value |-> NarrowTo(field_value.kind, field_value.value)]

\* The setter UndoFieldWrite calls for an entry, and the argument it passes.
ObjectLog_UndoFieldWrite_Setter(field_value) ==
    [setter |-> CASE field_value.kind = "kBoolean" -> IF field_value.is_volatile THEN "SetFieldBooleanVolatile" ELSE "SetFieldBoolean"
                  [] field_value.kind = "kByte" -> IF field_value.is_volatile THEN "SetFieldByteVolatile" ELSE "SetFieldByte"
                  [] field_value.kind = "kChar" -> IF field_value.is_volatile THEN "SetFieldCharVolatile" ELSE "SetFieldChar"
                  [] field_value.kind = "kShort" -> IF field_value.is_volatile THEN "SetFieldShortVolatile" ELSE "SetFieldShort"
                  [] field_value.kind = "k32Bits" -> IF field_value.is_volatile THEN "SetField32Volatile" ELSE "SetField32"
                  [] field_value.kind = "k64Bits" -> IF field_value.is_volatile THEN "SetField64Volatile" ELSE "SetField64"
                  [] field_value.kind = "kReference" -> IF field_value.is_volatile THEN "SetFieldObjectVolatile" ELSE "SetFieldObject",
     value |-> NarrowTo(field_value.kind, field_value.value)]

\* Mutant: the volatile branch stores nothing.
ObjectLog_UndoFieldWrite_NoVolatile(h, obj, field_offset, field_value) ==
    IF field_value.is_volatile
    THEN h
    ELSE [h EXCEPT ![obj].f[field_offset] = NarrowTo(field_value.kind, field_value.value)]

ObjectLog_UndoFieldWrite(h, obj, field_offset, field_value) ==
    [h EXCEPT ![obj].f[field_offset] = ObjectLog_UndoFieldWrite_Setter(field_value).value]

RECURSIVE ObjectLog_UndoFrom(_, _, _, _)
ObjectLog_UndoFrom(h, obj, log, offs) ==
    IF offs = {}
    THEN h
    ELSE LET off == Min(offs)
             skip == \/ off = ClassOffset
                     \/ (h[obj].type = "array" /\ off = LengthOffset)
         IN  ObjectLog_UndoFrom(IF skip THEN h ELSE ObjectLog_UndoFieldWrite(h, obj, off, log[off]), obj, log, offs \ {off})

\* Mutant: only the class slot is skipped; an array's length is written back.
RECURSIVE ObjectLog_UndoFrom_Length(_, _, _, _)
ObjectLog_UndoFrom_Length(h, obj, log, offs) ==
    IF offs = {}
    THEN h
    ELSE LET off == Min(offs)
         IN  ObjectLog_UndoFrom_Length(IF off = ClassOffset THEN h ELSE ObjectLog_UndoFieldWrite(h, obj, off, log[off]), obj, log, offs \ {off})

ObjectLog_Undo_Length(h, obj, log) == ObjectLog_UndoFrom_Length(h, obj, log, DOMAIN log)

ObjectLog_Undo(h, obj, log) == ObjectLog_UndoFrom(h, obj, log, DOMAIN log)

\* The setter calls ObjectLog::Undo makes on obj.
ObjectLog_Undo_Calls(h, obj, log) ==
    {<<obj, off, ObjectLog_UndoFieldWrite_Setter(log[off])>> :
        off \in {o \in DOMAIN log : ~(o = ClassOffset \/ (h[obj].type = "array" /\ o = LengthOffset))}}

\* ----------------------------------------------------------------- ArrayLog
\* Mutant: a later record replaces the entry.
ArrayLog_LogValue_Overwrite(log, index, value) == Put(log, index, value)

ArrayLog_LogValue(log, index, value) ==
    IF index \in DOMAIN log THEN log ELSE Put(log, index, value)

ArrayLog_UndoArrayWrite(h, array, array_type, index, value) ==
    CASE array_type = "kPrimBoolean" -> [h EXCEPT ![array].e[index] = ZeroExt8(value)]
      [] array_type = "kPrimByte" -> [h EXCEPT ![array].e[index] = ZeroExt8(value)]
      [] array_type = "kPrimChar" -> [h EXCEPT ![array].e[index] = ZeroExt16(value)]
      [] array_type = "kPrimShort" -> [h EXCEPT ![array].e[index] = ZeroExt16(value)]
      [] array_type = "kPrimInt" -> [h EXCEPT ![array].e[index] = ZeroExt32(value)]
      [] array_type = "kPrimFloat" -> [h EXCEPT ![array].e[index] = U64ToFloat(value)]
      [] array_type = "kPrimLong" -> [h EXCEPT ![array].e[index] = value]
      [] array_type = "kPrimDouble" -> [h EXCEPT ![array].e[index] = U64ToDouble(value)]

RECURSIVE ArrayLog_UndoFrom(_, _, _, _)
ArrayLog_UndoFrom(h, array, log, idxs) ==
    IF idxs = {}
    THEN h
    ELSE LET i == Min(idxs)
         IN  ArrayLog_UndoFrom(ArrayLog_UndoArrayWrite(h, array, h[array].ct, i, log[i]), array, log, idxs \ {i})

ArrayLog_Undo(h, array, log) == ArrayLog_UndoFrom(h, array, log, DOMAIN log)

\* ---------------------------------------------- InternStringLog, ResolveStringLog
InternStringLog_Undo(table, log) ==
    CASE log.string_op = "kInsert" /\ log.string_kind = "kStrongString" -> [table EXCEPT !.strong = @ \ {log.str}]
      [] log.string_op = "kInsert" /\ log.string_kind = "kWeakString" -> [table EXCEPT !.weak = @ \ {log.str}]
      [] log.string_op = "kRemove" /\ log.string_kind = "kStrongString" -> [table EXCEPT !.strong = @ \cup {log.str}]
      [] log.string_op = "kRemove" /\ log.string_kind = "kWeakString" -> [table EXCEPT !.weak = @ \cup {log.str}]

\* Mutant: the whole cache is cleared, not the logged slot.
ResolveStringLog_Undo_WholeCache(c, log) ==
    [c EXCEPT ![log.dex_cache].strings = [i \in Slots |-> NULL]]

ResolveStringLog_Undo(c, log) ==
    [c EXCEPT ![log.dex_cache].strings[log.string_idx] = NULL]

\* ------------------------------------------------------- the four undo phases
RECURSIVE UndoObjectsFrom(_, _, _)
UndoObjectsFrom(h, logs, keys) ==
    IF keys = {}
    THEN h
    ELSE LET k == Min(keys) IN UndoObjectsFrom(ObjectLog_Undo(h, k, logs[k]), logs, keys \ {k})

UndoObjectModifications(h, logs) ==
    [heap |-> UndoObjectsFrom(h, logs, DOMAIN logs), logs |-> EmptyMap]

RECURSIVE UndoArraysFrom(_, _, _)
UndoArraysFrom(h, logs, keys) ==
    IF keys = {}
    THEN h
    ELSE LET k == Min(keys) IN UndoArraysFrom(ArrayLog_Undo(h, k, logs[k]), logs, keys \ {k})

\* Mutant: the collection is not cleared.
UndoArrayModifications_NoClear(h, logs) ==
    [heap |-> UndoArraysFrom(h, logs, DOMAIN logs), logs |-> logs]

UndoArrayModifications(h, logs) ==
    [heap |-> UndoArraysFrom(h, logs, DOMAIN logs), logs |-> EmptyMap]

RECURSIVE UndoInternFrom(_, _, _)
UndoInternFrom(table, logs, i) ==
    IF i > Len(logs) THEN table ELSE UndoInternFrom(InternStringLog_Undo(table, logs[i]), logs, i + 1)

UndoInternStringTableModifications(table, logs) ==
    [table |-> UndoInternFrom(table, logs, 1), logs |-> <<>>]

RECURSIVE UndoResolveFrom(_, _, _)
UndoResolveFrom(c, logs, i) ==
    IF i > Len(logs) THEN c ELSE UndoResolveFrom(ResolveStringLog_Undo(c, logs[i]), logs, i + 1)

\* Mutant: the list is cleared without undoing its entries.
UndoResolveStringModifications_ClearOnly(c, logs) ==
    [cache |-> c, logs |-> <<>>]

UndoResolveStringModifications(c, logs) ==
    [cache |-> UndoResolveFrom(c, logs, 1), logs |-> <<>>]

\* ---------------------------------------------------------------- Transaction
LogOf(logs, k) == IF k \in DOMAIN logs THEN logs[k] ELSE EmptyMap

\* The constructor, and the heap, tables and caches it finds.
InitTransaction(strict, root) ==
    /\ strings = {1, 2}
    /\ strong = {}
    /\ weak = {1}
    /\ cache = InitCache
    /\ active = TRUE
    /\ aborted_ = FALSE
    /\ abort_message_ = ""
    /\ rolling_back_ = FALSE
    /\ root_ = root
    /\ strict_ = strict
    /\ assert_no_new_records_reason_ = NoReason
    /\ object_logs_ = EmptyMap
    /\ array_logs_ = EmptyMap
    /\ intern_string_logs_ = <<>>
    /\ resolve_string_logs_ = <<>>
    /\ fatal = "none"
    /\ orig = [a \in Addr |-> a]
    /\ nops = 0
    /\ log_lock_ = NoThread
    /\ intern_table_lock_ = NoThread
    /\ pc = [t \in Threads |-> Idle]
    /\ calls = {}
    /\ given = EmptyMap

\* Record*, Abort, Rollback and VisitRoots never read strict_ nor heap_.
Init ==
    /\ \E ct \in ArrayTypes : heap = InitHeap(ct)
    /\ heap_ = NoBootImageSpaces
    /\ hist = [op |-> "none"]
    /\ InitTransaction(FALSE, 1)

\* Mutant: every call stores its message.
Abort_LastWins(abort_message) ==
    /\ fatal = "none"
    /\ aborted_' = TRUE
    /\ abort_message_' = abort_message
    /\ hist' = [op |-> "Abort", abort_message |-> abort_message]
    /\ UNCHANGED <<heap, strings, strong, weak, cache, active, rolling_back_, root_, object_logs_, array_logs_, intern_string_logs_, resolve_string_logs_, fatal, orig, nops>>

\* Mutant: an abort drops what was logged so far.
Abort_DropsLogs(abort_message) ==
    /\ fatal = "none"
    /\ IF ~aborted_
       THEN aborted_' = TRUE /\ abort_message_' = abort_message
       ELSE UNCHANGED <<aborted_, abort_message_>>
    /\ object_logs_' = EmptyMap
    /\ hist' = [op |-> "Abort", abort_message |-> abort_message]
    /\ UNCHANGED <<heap, strings, strong, weak, cache, active, rolling_back_, root_, array_logs_, intern_string_logs_, resolve_string_logs_, fatal, orig, nops>>

Abort(abort_message) ==
    /\ fatal = "none"
    /\ IF ~aborted_
       THEN aborted_' = TRUE /\ abort_message_' = abort_message
       ELSE UNCHANGED <<aborted_, abort_message_>>
    /\ hist' = [op |-> "Abort", abort_message |-> abort_message]
    /\ UNCHANGED <<heap, strings, strong, weak, cache, active, rolling_back_, root_, object_logs_, array_logs_, intern_string_logs_, resolve_string_logs_, fatal, orig, nops>>

RecordWriteField32(obj, field_offset, value, is_volatile) ==
    object_logs_' = Put(object_logs_, obj, ObjectLog_Log32BitsValue(LogOf(object_logs_, obj), field_offset, value, is_volatile))

RecordWriteFieldReference(obj, field_offset, value, is_volatile) ==
    object_logs_' = Put(object_logs_, obj, ObjectLog_LogReferenceValue(LogOf(object_logs_, obj), field_offset, value, is_volatile))

RecordWriteFieldBoolean(obj, field_offset, value, is_volatile) ==
    object_logs_' = Put(object_logs_, obj, ObjectLog_LogBooleanValue(LogOf(object_logs_, obj), field_offset, value, is_volatile))

RecordWriteFieldByte(obj, field_offset, value, is_volatile) ==
    object_logs_' = Put(object_logs_, obj, ObjectLog_LogByteValue(LogOf(object_logs_, obj), field_offset, value, is_volatile))

RecordWriteFieldChar(obj, field_offset, value, is_volatile) ==
    object_logs_' = Put(object_logs_, obj, ObjectLog_LogCharValue(LogOf(object_logs_, obj), field_offset, value, is_volatile))

RecordWriteFieldShort(obj, field_offset, value, is_volatile) ==
    object_logs_' = Put(object_logs_, obj, ObjectLog_LogShortValue(LogOf(object_logs_, obj), field_offset, value, is_volatile))

RecordWriteField64(obj, field_offset, value, is_volatile) ==
    object_logs_' = Put(object_logs_, obj, ObjectLog_Log64BitsValue(LogOf(object_logs_, obj), field_offset, value, is_volatile))

RecordWriteArray(array, index, value) ==
    array_logs_' = Put(array_logs_, array, ArrayLog_LogValue(LogOf(array_logs_, array), index, value))

RecordResolveString(dex_cache, string_idx) ==
    resolve_string_logs_' = Append(resolve_string_logs_, [dex_cache |-> dex_cache, string_idx |-> string_idx])

\* Mutant: push_back instead of push_front.
LogInternedString_PushBack(logs, log) == Append(logs, log)

LogInternedString(logs, log) == <<log>> \o logs

RecordStrongStringInsertion(s) ==
    intern_string_logs_' = LogInternedString(intern_string_logs_, [str |-> s, string_kind |-> "kStrongString", string_op |-> "kInsert"])

RecordWeakStringInsertion(s) ==
    intern_string_logs_' = LogInternedString(intern_string_logs_, [str |-> s, string_kind |-> "kWeakString", string_op |-> "kInsert"])

RecordStrongStringRemoval(s) ==
    intern_string_logs_' = LogInternedString(intern_string_logs_, [str |-> s, string_kind |-> "kStrongString", string_op |-> "kRemove"])

RecordWeakStringRemoval(s) ==
    intern_string_logs_' = LogInternedString(intern_string_logs_, [str |-> s, string_kind |-> "kWeakString", string_op |-> "kRemove"])

\* ------------------------------------------- the accessors that call Record*
\* Every accessor runs in transaction mode: it changes the live heap (or table,
\* or cache) and hands the value it replaced to the matching Record* call.
CanRecord == fatal = "none" /\ active /\ nops < MaxOps

Recorded ==
    /\ nops' = nops + 1
    /\ hist' = [op |-> "none"]
    /\ UNCHANGED <<active, aborted_, abort_message_, rolling_back_, root_, fatal, orig>>

SetField32(obj, off, new, vol) ==
    /\ CanRecord
    /\ heap[obj].type # "free"
    /\ FieldKindAt(heap[obj].type, off) = "k32Bits"
    /\ RecordWriteField32(obj, off, heap[obj].f[off], vol)
    /\ heap' = [heap EXCEPT ![obj].f[off] = new]
    /\ Recorded
    /\ UNCHANGED <<strings, strong, weak, cache, array_logs_, intern_string_logs_, resolve_string_logs_>>

SetFieldObject(obj, off, new, vol) ==
    /\ CanRecord
    /\ heap[obj].type # "free"
    /\ FieldKindAt(heap[obj].type, off) = "kReference"
    /\ RecordWriteFieldReference(obj, off, heap[obj].f[off], vol)
    /\ heap' = [heap EXCEPT ![obj].f[off] = new]
    /\ Recorded
    /\ UNCHANGED <<strings, strong, weak, cache, array_logs_, intern_string_logs_, resolve_string_logs_>>

\* The element, converted to the uint64_t parameter of RecordWriteArray.
ElementToU64(ct, w) ==
    CASE ct = "kPrimBoolean" -> ZeroExt8(w)
      [] ct = "kPrimByte" -> SignExt8(w)
      [] ct = "kPrimChar" -> ZeroExt16(w)
      [] ct = "kPrimShort" -> SignExt16(w)
      [] ct = "kPrimInt" -> SignExt32(w)
      [] ct = "kPrimLong" -> w
      [] ct = "kPrimFloat" -> ZeroExt32(w)
      [] ct = "kPrimDouble" -> w

ArraySet(array, index, new) ==
    /\ CanRecord
    /\ heap[array].type = "array"
    /\ RecordWriteArray(array, index, ElementToU64(heap[array].ct, heap[array].e[index]))
    /\ heap' = [heap EXCEPT ![array].e[index] = new]
    /\ Recorded
    /\ UNCHANGED <<strings, strong, weak, cache, object_logs_, intern_string_logs_, resolve_string_logs_>>

InsertStrong(s) ==
    /\ CanRecord
    /\ s \in strings \ strong
    /\ strong' = strong \cup {s}
    /\ RecordStrongStringInsertion(s)
    /\ Recorded
    /\ UNCHANGED <<heap, strings, weak, cache, object_logs_, array_logs_, resolve_string_logs_>>

InsertWeak(s) ==
    /\ CanRecord
    /\ s \in strings \ weak
    /\ weak' = weak \cup {s}
    /\ RecordWeakStringInsertion(s)
    /\ Recorded
    /\ UNCHANGED <<heap, strings, strong, cache, object_logs_, array_logs_, resolve_string_logs_>>

RemoveStrong(s) ==
    /\ CanRecord
    /\ s \in strong
    /\ strong' = strong \ {s}
    /\ RecordStrongStringRemoval(s)
    /\ Recorded
    /\ UNCHANGED <<heap, strings, weak, cache, object_logs_, array_logs_, resolve_string_logs_>>

RemoveWeak(s) ==
    /\ CanRecord
    /\ s \in weak
    /\ weak' = weak \ {s}
    /\ RecordWeakStringRemoval(s)
    /\ Recorded
    /\ UNCHANGED <<heap, strings, strong, cache, object_logs_, array_logs_, resolve_string_logs_>>

ResolveString(dex_cache, string_idx, s) ==
    /\ CanRecord
    /\ cache[dex_cache].live
    /\ cache[dex_cache].strings[string_idx] = NULL
    /\ s \in strings
    /\ cache' = [cache EXCEPT ![dex_cache].strings[string_idx] = s]
    /\ RecordResolveString(dex_cache, string_idx)
    /\ Recorded
    /\ UNCHANGED <<heap, strings, strong, weak, object_logs_, array_logs_, intern_string_logs_>>

\* The engine leaves transaction mode; Rollback is legal only afterwards.
ExitTransactionMode ==
    /\ fatal = "none"
    /\ active
    /\ active' = FALSE
    /\ hist' = [op |-> "none"]
    /\ UNCHANGED <<heap, strings, strong, weak, cache, aborted_, abort_message_, rolling_back_, root_, object_logs_, array_logs_, intern_string_logs_, resolve_string_logs_, fatal, orig, nops>>

\* ------------------------------------------------------------------- Rollback
Snapshot ==
    [heap |-> heap, strong |-> strong, weak |-> weak, cache |-> cache,
     object_logs |-> object_logs_, array_logs |-> array_logs_,
     intern_string_logs |-> intern_string_logs_, resolve_string_logs |-> resolve_string_logs_]

\* Mutant: the CHECK comes after the four phases.
Rollback_CheckLast ==
    /\ fatal = "none"
    /\ hist' = [op |-> "Rollback", from |-> Snapshot]
    /\ LET o == UndoObjectModifications(heap, object_logs_)
           a == UndoArrayModifications(o.heap, array_logs_)
           i == UndoInternStringTableModifications([strong |-> strong, weak |-> weak], intern_string_logs_)
           r == UndoResolveStringModifications(cache, resolve_string_logs_)
       IN  /\ heap' = a.heap
           /\ object_logs_' = o.logs
           /\ array_logs_' = a.logs
           /\ strong' = i.table.strong
           /\ weak' = i.table.weak
           /\ intern_string_logs_' = i.logs
           /\ cache' = r.cache
           /\ resolve_string_logs_' = r.logs
           /\ rolling_back_' = active
           /\ fatal' = IF active THEN "Rollback: CHECK(!IsActiveTransaction())" ELSE fatal
    /\ UNCHANGED <<strings, active, aborted_, abort_message_, root_, orig, nops>>

Rollback ==
    /\ fatal = "none"
    /\ hist' = [op |-> "Rollback", from |-> Snapshot]
    /\ IF active
       THEN /\ rolling_back_' = TRUE
            /\ fatal' = "Rollback: CHECK(!IsActiveTransaction())"
            /\ UNCHANGED <<heap, strong, weak, cache, object_logs_, array_logs_, intern_string_logs_, resolve_string_logs_>>
       ELSE LET o == UndoObjectModifications(heap, object_logs_)
                a == UndoArrayModifications(o.heap, array_logs_)
                i == UndoInternStringTableModifications([strong |-> strong, weak |-> weak], intern_string_logs_)
                r == UndoResolveStringModifications(cache, resolve_string_logs_)
            IN  /\ heap' = a.heap
                /\ object_logs_' = o.logs
                /\ array_logs_' = a.logs
                /\ strong' = i.table.strong
                /\ weak' = i.table.weak
                /\ intern_string_logs_' = i.logs
                /\ cache' = r.cache
                /\ resolve_string_logs_' = r.logs
                /\ rolling_back_' = FALSE
                /\ UNCHANGED fatal
    /\ UNCHANGED <<strings, active, aborted_, abort_message_, root_, orig, nops>>

\* ----------------------------------------------------------------- VisitRoots
\* The visitor: the collector's relocation, a permutation pi of Addr.
Relocations == Permutations(Addr)
Inverse(pi, a) == CHOOSE b \in Addr : pi[b] = a

\* visitor->VisitRoot(&root): the slot holds a pointer, the visitor stores the
\* relocated identity back.
VisitRoot(pi, a) == IF a \in Addr THEN pi[a] ELSE a
VisitRootWord(pi, w) == IF AsPointer(w) \in Addr THEN V(pi[AsPointer(w)]) ELSE w

\* Mutant: every non-zero logged value is handed to the visitor, whatever its kind.
ObjectLog_VisitedOffsets_AnyKind(log) ==
    {off \in DOMAIN log : log[off].value # V(NULL)}

\* The logged offsets whose value ObjectLog::VisitRoots hands to the visitor.
ObjectLog_VisitedOffsets(log) ==
    {off \in DOMAIN log : log[off].kind = "kReference" /\ log[off].value # V(NULL)}

ObjectLog_VisitRoots(log, pi) ==
    [off \in DOMAIN log |->
        IF off \in ObjectLog_VisitedOffsets(log)
        THEN [log[off] EXCEPT !.value = VisitRootWord(pi, @)]
        ELSE log[off]]

\* "Update logs with moving roots": the pairs of moving_roots, one after the
\* other, each with its two CHECKs.
RECURSIVE UpdateMovingRoots(_, _, _, _)
UpdateMovingRoots(logs, pi, moving_roots, i) ==
    IF i > Len(moving_roots)
    THEN [ok |-> TRUE, logs |-> logs]
    ELSE LET old_root == moving_roots[i]
             new_root == pi[old_root]
         IN  IF old_root \notin DOMAIN logs \/ new_root \in DOMAIN logs
             THEN [ok |-> FALSE, logs |-> logs]
             ELSE UpdateMovingRoots(Erase(Put(logs, new_root, logs[old_root]), old_root), pi, moving_roots, i + 1)

\* The orders in which the keys that move can stand in moving_roots (the order
\* in which the log collection is iterated).
MovingRoots(logs, pi) ==
    LET moving == {k \in DOMAIN logs : pi[k] # k}
    IN  {q \in [1..Cardinality(moving) -> moving] : \A i, j \in DOMAIN q : i # j => q[i] # q[j]}

\* Mutant: the reference values are visited, the keys are left as they were.
VisitObjectLogs_StaleKeys(logs, pi, moving_roots) ==
    [ok |-> TRUE, logs |-> [k \in DOMAIN logs |-> ObjectLog_VisitRoots(logs[k], pi)]]

VisitObjectLogs(logs, pi, moving_roots) ==
    UpdateMovingRoots([k \in DOMAIN logs |-> ObjectLog_VisitRoots(logs[k], pi)], pi, moving_roots, 1)

VisitArrayLogs(logs, pi, moving_roots) ==
    UpdateMovingRoots(logs, pi, moving_roots, 1)

InternStringLog_VisitRoots(log, pi) == [log EXCEPT !.str = VisitRoot(pi, @)]

VisitInternStringLogs(logs, pi) == [i \in DOMAIN logs |-> InternStringLog_VisitRoots(logs[i], pi)]

ResolveStringLog_VisitRoots(log, pi) == [log EXCEPT !.dex_cache = VisitRoot(pi, @)]

VisitResolveStringLogs(logs, pi) == [i \in DOMAIN logs |-> ResolveStringLog_VisitRoots(logs[i], pi)]

\* What one pass hands to the visitor, each slot with the identity it held,
\* named by the address that identity had at construction.
Presented(ologs, alogs, ilogs, rlogs) ==
    {<<"root", 0, 0>>}
    \cup UNION {{<<"field", orig[k], off>> : off \in ObjectLog_VisitedOffsets(ologs[k])} : k \in DOMAIN ologs}
    \cup {<<"object", orig[k], 0>> : k \in DOMAIN ologs}
    \cup {<<"array", orig[k], 0>> : k \in DOMAIN alogs}
    \cup {<<"intern", i, 0>> : i \in DOMAIN ilogs}
    \cup {<<"resolve", i, 0>> : i \in DOMAIN rlogs}

\* The collector moves the regions by the same relocation.
MoveHeap(h, pi) ==
    [a \in Addr |->
        LET o == h[Inverse(pi, a)]
        IN  [o EXCEPT !.f = [off \in Offsets |-> IF FieldKindAt(o.type, off) = "kReference" THEN VisitRootWord(pi, o.f[off]) ELSE o.f[off]]]]

MoveSet(S, pi) == {pi[a] : a \in S}

MoveCache(c, pi) ==
    [a \in Addr |-> [c[Inverse(pi, a)] EXCEPT !.strings = [i \in Slots |-> VisitRoot(pi, @[i])]]]

\* The logs with every identity named by the address it had at construction:
\* what a log says, whatever the collector has moved.
NormWord(kind, w, og) == IF kind = "kReference" /\ AsPointer(w) \in Addr THEN V(og[AsPointer(w)]) ELSE w

NormObjectLogs(logs, og) ==
    UNION {{<<og[k], off, logs[k][off].kind, logs[k][off].is_volatile, NormWord(logs[k][off].kind, logs[k][off].value, og)>> : off \in DOMAIN logs[k]} : k \in DOMAIN logs}

NormArrayLogs(logs, og) ==
    UNION {{<<og[k], i, logs[k][i]>> : i \in DOMAIN logs[k]} : k \in DOMAIN logs}

NormInternLogs(logs, og) == [i \in DOMAIN logs |-> [logs[i] EXCEPT !.str = og[@]]]

NormResolveLogs(logs, og) == [i \in DOMAIN logs |-> [logs[i] EXCEPT !.dex_cache = og[@]]]

Visited(pi) ==
    [op |-> "VisitRoots",
     moved |-> {orig[a] : a \in {b \in Addr : pi[b] # b}},
     presented |-> Presented(object_logs_, array_logs_, intern_string_logs_, resolve_string_logs_),
     root |-> orig[root_],
     object_keys |-> {orig[k] : k \in DOMAIN object_logs_},
     array_keys |-> {orig[k] : k \in DOMAIN array_logs_},
     object_logs |-> NormObjectLogs(object_logs_, orig),
     array_logs |-> NormArrayLogs(array_logs_, orig),
     intern_string_logs |-> NormInternLogs(intern_string_logs_, orig),
     resolve_string_logs |-> NormResolveLogs(resolve_string_logs_, orig)]

VisitRoots(pi, object_roots, array_roots) ==
    /\ fatal = "none"
    /\ hist' = Visited(pi)
    /\ LET o == VisitObjectLogs(object_logs_, pi, object_roots)
           a == VisitArrayLogs(array_logs_, pi, array_roots)
       IN  IF ~o.ok \/ ~a.ok
           THEN /\ fatal' = (IF ~o.ok THEN "VisitObjectLogs: CHECK(object_logs_.find(new_root) == object_logs_.end())"
                                      ELSE "VisitArrayLogs: CHECK(array_logs_.find(new_root) == array_logs_.end())")
                /\ UNCHANGED <<heap, strings, strong, weak, cache, root_, object_logs_, array_logs_, intern_string_logs_, resolve_string_logs_, orig>>
           ELSE /\ root_' = VisitRoot(pi, root_)
                /\ object_logs_' = o.logs
                /\ array_logs_' = a.logs
                /\ intern_string_logs_' = VisitInternStringLogs(intern_string_logs_, pi)
                /\ resolve_string_logs_' = VisitResolveStringLogs(resolve_string_logs_, pi)
                /\ heap' = MoveHeap(heap, pi)
                /\ strings' = MoveSet(strings, pi)
                /\ strong' = MoveSet(strong, pi)
                /\ weak' = MoveSet(weak, pi)
                /\ cache' = MoveCache(cache, pi)
                /\ orig' = [b \in Addr |-> orig[Inverse(pi, b)]]
                /\ UNCHANGED fatal
    /\ UNCHANGED <<active, aborted_, abort_message_, rolling_back_, nops>>

\* New values the accessors store.
Values32 == {V(0), V(42)}
ValuesRef(obj) == {V(NULL), V(obj)}
ValuesElem == {V(7), V(9)}

Next ==
    \/ \E obj \in Addr, off \in Offsets, new \in Values32, vol \in BOOLEAN : Sequential /\ SetField32(obj, off, new, vol)
    \/ \E obj \in Addr, off \in Offsets, vol \in BOOLEAN : \E new \in ValuesRef(obj) : Sequential /\ SetFieldObject(obj, off, new, vol)
    \/ \E array \in Addr, index \in Indices, new \in ValuesElem : Sequential /\ ArraySet(array, index, new)
    \/ \E s \in Addr : Sequential /\ InsertStrong(s)
    \/ \E s \in Addr : Sequential /\ InsertWeak(s)
    \/ \E s \in Addr : Sequential /\ RemoveStrong(s)
    \/ \E s \in Addr : Sequential /\ RemoveWeak(s)
    \/ \E c \in Addr, i \in Slots, s \in Addr : Sequential /\ ResolveString(c, i, s)
    \/ Sequential /\ ExitTransactionMode
    \/ Sequential /\ Rollback
    \/ \E pi \in Relocations : \E object_roots \in MovingRoots(object_logs_, pi), array_roots \in MovingRoots(array_logs_, pi) : Sequential /\ VisitRoots(pi, object_roots, array_roots)

Spec == Init /\ [][Next]_vars

\* Abort among the operations it can interleave with.
NextAbort ==
    \/ \E m \in Messages : Sequential /\ Abort(m)
    \/ \E obj \in Addr, off \in Offsets, new \in Values32, vol \in BOOLEAN : Sequential /\ SetField32(obj, off, new, vol)
    \/ Sequential /\ ExitTransactionMode
    \/ Sequential /\ Rollback
    \/ \E pi \in Relocations : \E object_roots \in MovingRoots(object_logs_, pi), array_roots \in MovingRoots(array_logs_, pi) : Sequential /\ VisitRoots(pi, object_roots, array_roots)

SpecAbort == Init /\ [][NextAbort]_vars


\* ------------------------------------------------------------------- claims
\* The state at construction, seen from the current addresses.
PreField(a, off) == InitHeap("kPrimInt")[orig[a]].f[off]
PreElem(a, i) == InitHeap("kPrimInt")[orig[a]].e[i]
PreStrong == {}
PreWeak == {1}

RolledBack == hist.op = "Rollback" /\ fatal = "none"
Protected(h, a, off) == off = ClassOffset \/ (h[a].type = "array" /\ off = LengthOffset)

\* C1: after Rollback every logged object+offset, other than the class slot
\* and an array's length slot, holds the value it had before the
\* transaction's first recorded write to it.
C1_RollbackRestoresFields ==
    RolledBack =>
        \A k \in DOMAIN hist.from.object_logs : \A off \in DOMAIN hist.from.object_logs[k] :
            ~Protected(heap, k, off) =>
                NormWord(FieldKindAt(heap[k].type, off), heap[k].f[off], orig) = PreField(k, off)

\* The scenario of the specification: X.8 held 0, 42 was written and
\* recorded, and Rollback put 0 back.
C1_Witness ==
    /\ RolledBack
    /\ \E k \in DOMAIN hist.from.object_logs :
        /\ heap[k].type = "instance"
        /\ LengthOffset \in DOMAIN hist.from.object_logs[k]
        /\ hist.from.heap[k].f[LengthOffset] = V(42)
        /\ heap[k].f[LengthOffset] = V(0)

\* C2: first-write-wins.  Whatever was recorded afterwards, an entry of an
\* object log or of an array log holds the value that the first record call
\* for its location was given (the value the location had at construction),
\* and Rollback puts that value back, not the value before a later write.
C2_FirstWriteWins ==
    /\ \A k \in DOMAIN object_logs_ : \A off \in DOMAIN object_logs_[k] :
          NormWord(object_logs_[k][off].kind, object_logs_[k][off].value, orig) = PreField(k, off)
    /\ \A k \in DOMAIN array_logs_ : \A i \in DOMAIN array_logs_[k] :
          array_logs_[k][i] = ElementToU64(heap[k].ct, PreElem(k, i))
    /\ RolledBack =>
          /\ \A k \in DOMAIN hist.from.array_logs : \A i \in DOMAIN hist.from.array_logs[k] :
                heap[k].e[i] = PreElem(k, i)
          /\ \A k \in DOMAIN hist.from.object_logs : \A off \in DOMAIN hist.from.object_logs[k] :
                ~Protected(heap, k, off) => NormWord(FieldKindAt(heap[k].type, off), heap[k].f[off], orig) = PreField(k, off)

\* Two writes were recorded for one array element (both Record* calls of the
\* run made one entry), and Rollback restored the element.
C2_Witness ==
    /\ RolledBack
    /\ nops = 2
    /\ DOMAIN hist.from.object_logs = {}
    /\ hist.from.intern_string_logs = <<>>
    /\ hist.from.resolve_string_logs = <<>>
    /\ \E k \in DOMAIN hist.from.array_logs : \E i \in DOMAIN hist.from.array_logs[k] :
          /\ DOMAIN hist.from.array_logs = {k}
          /\ DOMAIN hist.from.array_logs[k] = {i}
          /\ hist.from.heap[k].e[i] = V(9)
          /\ heap[k].e[i] = PreElem(k, i)

\* C3: after Rollback returns, all four log collections are empty.
C3_LogsEmptyAfterRollback ==
    RolledBack =>
        /\ DOMAIN object_logs_ = {}
        /\ DOMAIN array_logs_ = {}
        /\ Len(intern_string_logs_) = 0
        /\ Len(resolve_string_logs_) = 0

C3_Witness ==
    /\ RolledBack
    /\ DOMAIN hist.from.array_logs # {}
    /\ Len(hist.from.resolve_string_logs) > 0

\* C4: Rollback writes only logged locations.  A field, array element,
\* interning-table entry or string-cache slot with no record in the logs has
\* after Rollback the value it had before it, and what is written to a logged
\* field is what that object's own log holds.
LoggedInTable(logs, s, kind) == \E i \in DOMAIN logs : logs[i].str = s /\ logs[i].string_kind = kind
LoggedSlot(logs, c, i) == \E j \in DOMAIN logs : logs[j].dex_cache = c /\ logs[j].string_idx = i

C4_RollbackFrame ==
    RolledBack =>
        /\ \A a \in Addr : \A off \in Offsets :
              IF a \in DOMAIN hist.from.object_logs /\ off \in DOMAIN hist.from.object_logs[a] /\ ~Protected(heap, a, off)
              THEN heap[a].f[off] = NarrowTo(hist.from.object_logs[a][off].kind, hist.from.object_logs[a][off].value)
              ELSE heap[a].f[off] = hist.from.heap[a].f[off]
        /\ \A a \in Addr : \A i \in Indices :
              (a \notin DOMAIN hist.from.array_logs \/ i \notin DOMAIN hist.from.array_logs[a]) =>
                  heap[a].e[i] = hist.from.heap[a].e[i]
        /\ \A s \in Addr :
              /\ ~LoggedInTable(hist.from.intern_string_logs, s, "kStrongString") => (s \in strong <=> s \in hist.from.strong)
              /\ ~LoggedInTable(hist.from.intern_string_logs, s, "kWeakString") => (s \in weak <=> s \in hist.from.weak)
        /\ \A c \in Addr : \A i \in Slots :
              ~LoggedSlot(hist.from.resolve_string_logs, c, i) => cache[c].strings[i] = hist.from.cache[c].strings[i]

\* A resolve-string record was undone next to a slot that was resolved before
\* the transaction and stays resolved.
C4_Witness ==
    /\ RolledBack
    /\ Len(hist.from.resolve_string_logs) > 0
    /\ DOMAIN hist.from.object_logs # {}
    /\ \E c \in Addr : cache[c].live /\ cache[c].strings[0] # NULL
    /\ heap # hist.from.heap
    /\ cache # hist.from.cache

\* C5: first-abort-wins.  An Abort call leaves the transaction aborted; the
\* call that finds it not aborted stores its message, and no later step, an
\* Abort with another message included, changes the stored message.
C5_FirstAbortWins ==
    [][/\ aborted_ => (aborted_' /\ abort_message_' = abort_message_)
       /\ hist'.op = "Abort" => (aborted_' /\ (~aborted_ => abort_message_' = hist'.abort_message))]_vars

\* Abort("first") then Abort("second"): the message is still "first".
C5_Witness ==
    /\ hist.op = "Abort"
    /\ hist.abort_message = "second"
    /\ aborted_
    /\ abort_message_ = "first"

\* C6: Rollback never writes the class slot of an object nor the length slot
\* of an array, logged or not; the other logged offsets of an object whose
\* log holds such an entry are restored.
C6_ProtectedSlots ==
    RolledBack =>
        /\ \A a \in Addr :
              /\ heap[a].f[ClassOffset] = hist.from.heap[a].f[ClassOffset]
              /\ heap[a].type = "array" => heap[a].f[LengthOffset] = hist.from.heap[a].f[LengthOffset]
        /\ \A k \in DOMAIN hist.from.object_logs : \A off \in DOMAIN hist.from.object_logs[k] :
              ~Protected(heap, k, off) => NormWord(FieldKindAt(heap[k].type, off), heap[k].f[off], orig) = PreField(k, off)

\* The class slot of an instance was logged and keeps the value written in
\* the transaction, while the logged field at offset 8 is restored.
C6_Witness ==
    /\ RolledBack
    /\ \E k \in DOMAIN hist.from.object_logs :
          /\ heap[k].type = "instance"
          /\ DOMAIN hist.from.object_logs[k] = {ClassOffset, LengthOffset}
          /\ hist.from.object_logs[k][ClassOffset].value # V(NULL)
          /\ heap[k].f[ClassOffset] = V(NULL)
          /\ hist.from.heap[k].f[LengthOffset] = V(42)
          /\ heap[k].f[LengthOffset] = V(0)

\* C7: the intern-string records are undone most recent first, each by its
\* inverse on its own table, so after Rollback both tables hold the strings
\* they held before the transaction.
C7_InternTablesRestored ==
    RolledBack =>
        /\ {orig[s] : s \in strong} = PreStrong
        /\ {orig[s] : s \in weak} = PreWeak

\* insert(S) then remove(S) were recorded on one table, and S is absent.
C7_Witness ==
    /\ RolledBack
    /\ Len(hist.from.intern_string_logs) = 2
    /\ hist.from.intern_string_logs[1].string_op = "kRemove"
    /\ hist.from.intern_string_logs[2].string_op = "kInsert"
    /\ hist.from.intern_string_logs[1].str = hist.from.intern_string_logs[2].str
    /\ hist.from.intern_string_logs[1].string_kind = "kStrongString"
    /\ hist.from.intern_string_logs[2].string_kind = "kStrongString"
    /\ hist.from.intern_string_logs[1].str \notin strong

\* C8: after Rollback every recorded (cache, slot) is unresolved, and the
\* slots Rollback changed are exactly the recorded ones.
RecordedSlots(logs) == {<<logs[j].dex_cache, logs[j].string_idx>> : j \in DOMAIN logs}

C8_ResolveStringUndo ==
    RolledBack =>
        /\ \A p \in RecordedSlots(hist.from.resolve_string_logs) : cache[p[1]].strings[p[2]] = NULL
        /\ {p \in Addr \X Slots : cache[p[1]].strings[p[2]] # hist.from.cache[p[1]].strings[p[2]]} = RecordedSlots(hist.from.resolve_string_logs)

C8_Witness ==
    /\ RolledBack
    /\ Cardinality(RecordedSlots(hist.from.resolve_string_logs)) = 2
    /\ \E c \in Addr : cache[c].live /\ cache[c].strings[0] # NULL

\* C9 (as claimed): for every injective relocation, VisitRoots completes
\* without a collision assertion failure, the logs are keyed by the new
\* identities of the same objects, their number is unchanged and their
\* entries are unchanged.
C9_RekeyAnyInjectiveRelocation ==
    hist.op = "VisitRoots" =>
        /\ fatal = "none"
        /\ {orig[k] : k \in DOMAIN object_logs_} = hist.object_keys
        /\ {orig[k] : k \in DOMAIN array_logs_} = hist.array_keys
        /\ Cardinality(DOMAIN object_logs_) = Cardinality(hist.object_keys)
        /\ Cardinality(DOMAIN array_logs_) = Cardinality(hist.array_keys)
        /\ NormObjectLogs(object_logs_, orig) = hist.object_logs
        /\ NormArrayLogs(array_logs_, orig) = hist.array_logs

\* C10: a completed VisitRoots pass has handed to the visitor the root class,
\* every non-null reference-kind value of every ObjectLog, the string of every
\* InternStringLog and the cache of every ResolveStringLog, and each of these
\* slots now holds the relocated identity of the object it referred to; the
\* values of the other kinds were not handed over and are unchanged.
Visits == hist.op = "VisitRoots" /\ fatal = "none"

C10_ReferenceRoots ==
    Visits =>
        /\ <<"root", 0, 0>> \in hist.presented
        /\ orig[root_] = hist.root
        /\ \A e \in hist.object_logs :
              (e[3] = "kReference" /\ e[5] # V(NULL)) <=> <<"field", e[1], e[2]>> \in hist.presented
        /\ NormObjectLogs(object_logs_, orig) = hist.object_logs
        /\ \A i \in DOMAIN intern_string_logs_ : <<"intern", i, 0>> \in hist.presented
        /\ NormInternLogs(intern_string_logs_, orig) = hist.intern_string_logs
        /\ \A i \in DOMAIN resolve_string_logs_ : <<"resolve", i, 0>> \in hist.presented
        /\ NormResolveLogs(resolve_string_logs_, orig) = hist.resolve_string_logs

\* A pass that moved the referent of a logged reference value, with a logged
\* 32-bit value in the same collection whose bits are those of an address
\* that moved.
C10_Witness ==
    /\ Visits
    /\ \E e \in hist.object_logs : e[3] = "kReference" /\ AsPointer(e[5]) \in hist.moved
    /\ \E e \in hist.object_logs : e[3] = "k32Bits" /\ AsPointer(e[5]) \in hist.moved


\* ================================================================ constraints
\* ObjPtr<mirror::Object>: a class (class region) or an instance or array
\* (object region).
NullRef == [region |-> "null", addr |-> NULL]
ClassRef(a) == [region |-> "class", addr |-> a]
ObjectRef(a) == [region |-> "object", addr |-> a]
IsClass(obj) == obj.region = "class"
GetClass(h, obj) == ClassRef(AsPointer(h[obj.addr].f[ClassOffset]))

\* The objects the constraint checks are asked about: X, Y and their classes.
Refs == {ClassRef(1), ClassRef(2), ObjectRef(1), ObjectRef(2)}

\* gc::Heap and AotClassLinker, as the constraint checks use them.
ObjectIsInBootImageSpace(hp, obj) == obj \in hp.in_boot_image
GetBootImageSpaces_empty(hp) == hp.spaces = 0
CanReferenceInBootImageExtension(klass, hp) == klass.addr \in hp.can_reference

\* The heaps a transaction can be constructed on: the boot image build, and
\* the builds that have a boot image space holding any of the objects.
BootImageConfigs ==
    {NoBootImageSpaces} \cup
    {[spaces |-> 1, in_boot_image |-> S, can_reference |-> C] : S \in SUBSET Refs, C \in SUBSET {1, 2}}

IsStrict == strict_

\* Mutant: the root class is exempt before the boot image test.
WriteConstraint_RootFirst(obj) ==
    IF obj = ClassRef(root_)
    THEN FALSE
    ELSE ObjectIsInBootImageSpace(heap_, obj) \/ (IsStrict /\ IsClass(obj))

WriteConstraint(obj) ==
    IF ObjectIsInBootImageSpace(heap_, obj)
    THEN TRUE
    ELSE IsStrict /\ IsClass(obj) /\ obj # ClassRef(root_)

\* Mutant: strict mode is restricted like a boot image extension.
WriteValueConstraint_StrictToo(value) ==
    IF value = NullRef
    THEN FALSE
    ELSE IF GetBootImageSpaces_empty(heap_)
         THEN FALSE
         ELSE LET klass == IF IsClass(value) THEN value ELSE GetClass(heap, value)
              IN  ~CanReferenceInBootImageExtension(klass, heap_)

WriteValueConstraint(value) ==
    IF value = NullRef
    THEN FALSE
    ELSE IF IsStrict
         THEN FALSE
         ELSE IF GetBootImageSpaces_empty(heap_)
              THEN FALSE
              ELSE LET klass == IF IsClass(value) THEN value ELSE GetClass(heap, value)
                   IN  ~CanReferenceInBootImageExtension(klass, heap_)

\* Mutant: reads of boot image classes are blocked as writes are.
ReadConstraint_BootImage(obj) ==
    IF ObjectIsInBootImageSpace(heap_, obj)
    THEN TRUE
    ELSE IF IsStrict THEN obj # ClassRef(root_) ELSE FALSE

ReadConstraint(obj) ==
    IF IsStrict THEN obj # ClassRef(root_) ELSE FALSE

\* A constraint check changes nothing; the caller keeps its answer.
Answered(op, obj, blocked) ==
    /\ fatal = "none"
    /\ hist' = [op |-> op, obj |-> obj, blocked |-> blocked]
    /\ UNCHANGED <<heap, strings, strong, weak, cache, active, aborted_, abort_message_, rolling_back_, root_, object_logs_, array_logs_, intern_string_logs_, resolve_string_logs_, fatal, orig, nops>>

CheckWrite(obj) == Answered("WriteConstraint", obj, WriteConstraint(obj))

CheckWriteValue(value) == Answered("WriteValueConstraint", value, WriteValueConstraint(value))

\* Static field reads only: the object is a class (DCHECK, line 159).
CheckRead(obj) == IsClass(obj) /\ Answered("ReadConstraint", obj, ReadConstraint(obj))

InitConstraints ==
    /\ heap = InitHeap("kPrimInt")
    /\ heap_ \in BootImageConfigs
    /\ hist = [op |-> "none"]
    /\ \E strict \in BOOLEAN, root \in {1, 2} : InitTransaction(strict, root)

NextConstraints ==
    \/ \E obj \in Refs : Sequential /\ CheckWrite(obj)
    \/ \E value \in Refs \cup {NullRef} : Sequential /\ CheckWriteValue(value)
    \/ \E obj \in Refs : Sequential /\ CheckRead(obj)

SpecConstraints == InitConstraints /\ [][NextConstraints]_vars

\* C11: WriteConstraint blocks exactly the objects of the boot image spaces
\* (in both modes, the root class included) and, in strict mode, the classes
\* other than the root class; so non-strict mode blocks nothing outside the
\* boot image spaces, and strict mode blocks no instance, array or root class
\* outside them.
C11_WriteConstraint ==
    hist.op = "WriteConstraint" =>
        /\ hist.blocked <=> \/ hist.obj \in heap_.in_boot_image
                            \/ (strict_ /\ hist.obj.region = "class" /\ hist.obj.addr # root_)
        /\ (~strict_ /\ hist.obj \notin heap_.in_boot_image) => ~hist.blocked
        /\ (strict_ /\ hist.obj \notin heap_.in_boot_image /\ (hist.obj.region = "object" \/ hist.obj = ClassRef(root_))) => ~hist.blocked

\* The root class lies in a boot image space and the mode is non-strict: blocked.
C11_Witness ==
    /\ hist.op = "WriteConstraint"
    /\ ~strict_
    /\ hist.obj = ClassRef(root_)
    /\ hist.obj \in heap_.in_boot_image
    /\ hist.blocked

\* C12: ReadConstraint on a class blocks exactly when the transaction is
\* strict and the class is not the root class; non-strict mode never blocks,
\* classes of the boot image spaces included.
C12_ReadConstraint ==
    hist.op = "ReadConstraint" =>
        /\ hist.blocked <=> (strict_ /\ hist.obj # ClassRef(root_))
        /\ ~strict_ => ~hist.blocked

C12_Witness ==
    /\ hist.op = "ReadConstraint"
    /\ ~strict_
    /\ hist.obj # ClassRef(root_)
    /\ hist.obj \in heap_.in_boot_image
    /\ ~hist.blocked

\* C13: WriteValueConstraint blocks exactly when the value is not null, the
\* transaction is non-strict, the heap has a boot image space and the value's
\* class (the value itself when it is a class) is not one the extension may
\* reference; null, strict mode and a heap without boot image spaces always
\* permit.
C13_WriteValueConstraint ==
    hist.op = "WriteValueConstraint" =>
        /\ hist.blocked <=>
              /\ hist.obj # NullRef
              /\ ~strict_
              /\ heap_.spaces >= 1
              /\ (IF hist.obj.region = "class" THEN hist.obj.addr ELSE AsPointer(heap[hist.obj.addr].f[ClassOffset])) \notin heap_.can_reference
        /\ (hist.obj = NullRef \/ strict_ \/ heap_.spaces = 0) => ~hist.blocked

\* An instance whose class the extension may not reference: blocked.
C13_Witness ==
    /\ hist.op = "WriteValueConstraint"
    /\ hist.obj.region = "object"
    /\ ~strict_
    /\ heap_.spaces >= 1
    /\ hist.blocked


\* ===================================================== every kind, every type
Kinds == {"kBoolean", "kByte", "kChar", "kShort", "k32Bits", "k64Bits", "kReference"}
PrimitiveTypes == {"kPrimBoolean", "kPrimByte", "kPrimChar", "kPrimShort", "kPrimInt", "kPrimFloat", "kPrimLong", "kPrimDouble"}

\* The bits of a word that an element of the component type occupies.
ElemBits(ct, w) ==
    CASE ct \in {"kPrimBoolean", "kPrimByte"} -> ZeroExt8(w)
      [] ct \in {"kPrimChar", "kPrimShort"} -> ZeroExt16(w)
      [] ct \in {"kPrimInt", "kPrimFloat"} -> ZeroExt32(w)
      [] ct \in {"kPrimLong", "kPrimDouble"} -> w

\* X's two fields hold bit patterns with the sign bit of every width set
\* (offset 8) and clear (offset 12); the elements of Y hold all ones at their
\* width, a float array 1.0f, a double array the bits 0x3FF00000.
InitHeapKinds(ct) ==
    [InitHeap(ct) EXCEPT
        ![1].f = [off \in Offsets |-> CASE off = ClassOffset -> V(1)
                                        [] off = LengthOffset -> <<33025, 17767, 35243, 52719>>
                                        [] OTHER -> <<0, 1, 2, 259>>],
        ![2].e = [i \in Indices |-> CASE ct = "kPrimFloat" -> <<0, 0, 16256, 0>>
                                      [] ct = "kPrimDouble" -> <<0, 0, 16368, 0>>
                                      [] OTHER -> ElemBits(ct, <<65535, 65535, 65535, 65535>>)]]

\* The accessor of a field of the given kind calls the Record* of that kind.
RecordWriteFieldOfKind(kind, obj, field_offset, value, is_volatile) ==
    CASE kind = "kBoolean" -> RecordWriteFieldBoolean(obj, field_offset, value, is_volatile)
      [] kind = "kByte" -> RecordWriteFieldByte(obj, field_offset, value, is_volatile)
      [] kind = "kChar" -> RecordWriteFieldChar(obj, field_offset, value, is_volatile)
      [] kind = "kShort" -> RecordWriteFieldShort(obj, field_offset, value, is_volatile)
      [] kind = "k32Bits" -> RecordWriteField32(obj, field_offset, value, is_volatile)
      [] kind = "k64Bits" -> RecordWriteField64(obj, field_offset, value, is_volatile)
      [] kind = "kReference" -> RecordWriteFieldReference(obj, field_offset, value, is_volatile)

\* A write to a field of the given kind: the accessor reads the field at the
\* kind's width, stores the new value and records the value it replaced.
SetFieldKind(obj, off, kind, new, vol) ==
    /\ CanRecord
    /\ heap[obj].type = "instance"
    /\ off # ClassOffset
    /\ <<obj, off>> \in DOMAIN given => given[<<obj, off>>].kind = kind
    /\ LET old == NarrowTo(kind, heap[obj].f[off])
       IN  /\ RecordWriteFieldOfKind(kind, obj, off, old, vol)
           /\ given' = IF <<obj, off>> \in DOMAIN given
                       THEN given
                       ELSE Put(given, <<obj, off>>, [kind |-> kind, value |-> old, is_volatile |-> vol])
    /\ heap' = [heap EXCEPT ![obj].f[off] = new]
    /\ Recorded
    /\ UNCHANGED <<strings, strong, weak, cache, array_logs_, intern_string_logs_, resolve_string_logs_, calls>>

\* The setter calls of UndoObjectModifications.
UndoObjectModifications_Calls(h, logs) ==
    UNION {ObjectLog_Undo_Calls(h, k, logs[k]) : k \in DOMAIN logs}

\* Rollback, with the setter calls it makes kept for inspection.
RollbackObserved ==
    /\ Rollback
    /\ calls' = IF active THEN {} ELSE UndoObjectModifications_Calls(heap, object_logs_)
    /\ UNCHANGED given

InitKinds ==
    /\ \E ct \in PrimitiveTypes : heap = InitHeapKinds(ct)
    /\ heap_ = NoBootImageSpaces
    /\ hist = [op |-> "none"]
    /\ InitTransaction(FALSE, 1)

NextKinds ==
    \/ \E obj \in Addr, off \in Offsets, kind \in Kinds, new \in Values32, vol \in BOOLEAN : Unasserted /\ SetFieldKind(obj, off, kind, new, vol)
    \/ \E array \in Addr, index \in Indices, new \in ValuesElem : Sequential /\ ArraySet(array, index, new)
    \/ Sequential /\ ExitTransactionMode
    \/ Unasserted /\ RollbackObserved

SpecKinds == InitKinds /\ [][NextKinds]_vars

\* The setter of a kind, as the claim names it.
SetterOf(kind, is_volatile) ==
    [kBoolean |-> "SetFieldBoolean", kByte |-> "SetFieldByte", kChar |-> "SetFieldChar", kShort |-> "SetFieldShort",
     k32Bits |-> "SetField32", k64Bits |-> "SetField64", kReference |-> "SetFieldObject"][kind]
    \o (IF is_volatile THEN "Volatile" ELSE "")

UndoneFields == {loc \in DOMAIN given : loc[1] \in DOMAIN hist.from.object_logs /\ loc[2] \in DOMAIN hist.from.object_logs[loc[1]]}

\* C15: for each of the seven kinds, the entry of a location narrows back to
\* the value its first Record* call was given and keeps that call's kind and
\* volatility; Rollback stores exactly that value, with the setter of that
\* kind, volatile exactly when the first record was, one call per entry.
C15_BitExactFieldUndo ==
    /\ \A loc \in DOMAIN given :
          (loc[1] \in DOMAIN object_logs_ /\ loc[2] \in DOMAIN object_logs_[loc[1]]) =>
              LET e == object_logs_[loc[1]][loc[2]]
              IN  /\ e.kind = given[loc].kind
                  /\ e.is_volatile = given[loc].is_volatile
                  /\ NarrowTo(e.kind, e.value) = given[loc].value
    /\ RolledBack =>
          /\ \A loc \in UndoneFields :
                /\ heap[loc[1]].f[loc[2]] = given[loc].value
                /\ <<loc[1], loc[2], [setter |-> SetterOf(given[loc].kind, given[loc].is_volatile), value |-> given[loc].value]>> \in calls
          /\ Cardinality(calls) = Cardinality(UndoneFields)

\* A byte field that held 0xEF (negative) was recorded twice, the first time
\* as a volatile write, and Rollback stored 0xEF with the volatile setter.
C15_Witness ==
    /\ RolledBack
    /\ nops = 2
    /\ \E loc \in UndoneFields :
          /\ UndoneFields = {loc}
          /\ given[loc].kind = "kByte"
          /\ given[loc].is_volatile
          /\ given[loc].value = V(239)
          /\ hist.from.heap[loc[1]].f[loc[2]] = V(42)
          /\ heap[loc[1]].f[loc[2]] = V(239)
          /\ \E c \in calls : c[3].setter = "SetFieldByteVolatile"

\* C16 (as claimed): for every component type Rollback writes to each logged
\* index the low-order bits of the stored 64-bit value at the type's width,
\* so the element has the bits it had before the transaction.
C16_BitExactArrayUndo ==
    RolledBack =>
        \A k \in DOMAIN hist.from.array_logs : \A i \in DOMAIN hist.from.array_logs[k] :
            /\ heap[k].e[i] = ElemBits(heap[k].ct, hist.from.array_logs[k][i])
            /\ heap[k].e[i] = InitHeapKinds(heap[k].ct)[k].e[i]


\* ============================================================ ThrowAbortError
IsAborted == aborted_
GetAbortMessage == abort_message_

\* const std::string* abort_message: <<>> is nullptr, <<m>> points to m.
MessagePointers == {<<>>} \cup {<<m>> : m \in Messages \cup {"other"}}

NoException == [descriptor |-> "none", message |-> ""]

\* Mutant: the stored message is thrown whatever message is given.
ThrowAbortError_Stored(abort_message, kIsDebugBuild) ==
    /\ fatal = "none"
    /\ LET rethrow == abort_message = <<>>
       IN  IF kIsDebugBuild /\ rethrow /\ ~IsAborted
           THEN /\ fatal' = "ThrowAbortError: CHECK(IsAborted())"
                /\ hist' = [op |-> "ThrowAbortError", abort_message |-> abort_message, kIsDebugBuild |-> kIsDebugBuild,
                            aborted |-> aborted_, stored |-> abort_message_, exception |-> NoException]
           ELSE /\ hist' = [op |-> "ThrowAbortError", abort_message |-> abort_message, kIsDebugBuild |-> kIsDebugBuild,
                            aborted |-> aborted_, stored |-> abort_message_,
                            exception |-> [descriptor |-> "kAbortExceptionDescriptor", message |-> GetAbortMessage]]
                /\ UNCHANGED fatal
    /\ UNCHANGED <<heap, strings, strong, weak, cache, active, aborted_, abort_message_, rolling_back_, root_, object_logs_, array_logs_, intern_string_logs_, resolve_string_logs_, orig, nops>>

ThrowAbortError(abort_message, kIsDebugBuild) ==
    /\ fatal = "none"
    /\ LET rethrow == abort_message = <<>>
       IN  IF kIsDebugBuild /\ rethrow /\ ~IsAborted
           THEN /\ fatal' = "ThrowAbortError: CHECK(IsAborted())"
                /\ hist' = [op |-> "ThrowAbortError", abort_message |-> abort_message, kIsDebugBuild |-> kIsDebugBuild,
                            aborted |-> aborted_, stored |-> abort_message_, exception |-> NoException]
           ELSE /\ hist' = [op |-> "ThrowAbortError", abort_message |-> abort_message, kIsDebugBuild |-> kIsDebugBuild,
                            aborted |-> aborted_, stored |-> abort_message_,
                            exception |-> [descriptor |-> "kAbortExceptionDescriptor",
                                           message |-> IF rethrow THEN GetAbortMessage ELSE abort_message[1]]]
                /\ UNCHANGED fatal
    /\ UNCHANGED <<heap, strings, strong, weak, cache, active, aborted_, abort_message_, rolling_back_, root_, object_logs_, array_logs_, intern_string_logs_, resolve_string_logs_, orig, nops>>

NextThrow ==
    \/ \E m \in Messages : Sequential /\ Abort(m)
    \/ \E p \in MessagePointers, kIsDebugBuild \in BOOLEAN : Sequential /\ ThrowAbortError(p, kIsDebugBuild)
    \/ \E obj \in Addr, off \in Offsets, new \in Values32, vol \in BOOLEAN : Sequential /\ SetField32(obj, off, new, vol)
    \/ Sequential /\ ExitTransactionMode
    \/ Sequential /\ Rollback

SpecThrow == Init /\ [][NextThrow]_vars

\* C17: ThrowAbortError without a message throws the abort error with the
\* stored message, and in a debug build stops at a CHECK when the transaction
\* is not aborted; with a message it throws the abort error with exactly that
\* message, aborted or not; aborted_ and abort_message_ are what they were.
C17_ThrowAbortError ==
    hist.op = "ThrowAbortError" =>
        /\ aborted_ = hist.aborted
        /\ abort_message_ = hist.stored
        /\ hist.abort_message = <<>> =>
              IF hist.kIsDebugBuild /\ ~hist.aborted
              THEN fatal # "none" /\ hist.exception = NoException
              ELSE /\ fatal = "none"
                   /\ hist.exception = [descriptor |-> "kAbortExceptionDescriptor", message |-> hist.stored]
        /\ hist.abort_message # <<>> =>
              /\ fatal = "none"
              /\ hist.exception = [descriptor |-> "kAbortExceptionDescriptor", message |-> hist.abort_message[1]]

\* Aborted with "first"; ThrowAbortError is given "other" and throws "other",
\* the stored message is still "first".
C17_Witness ==
    /\ hist.op = "ThrowAbortError"
    /\ hist.abort_message = <<"other">>
    /\ aborted_
    /\ abort_message_ = "first"
    /\ hist.exception.message = "other"


\* ========================================================= Rollback while active
\* C18: Rollback called while the transaction is the runtime's active one
\* stops the process at the CHECK, before any entry is undone and before any
\* collection is cleared: heap, interning tables, string caches and the four
\* logs are what they were when it was called.
C18_RollbackWhileActive ==
    (hist.op = "Rollback" /\ active) =>
        /\ fatal = "Rollback: CHECK(!IsActiveTransaction())"
        /\ heap = hist.from.heap
        /\ strong = hist.from.strong
        /\ weak = hist.from.weak
        /\ cache = hist.from.cache
        /\ object_logs_ = hist.from.object_logs
        /\ array_logs_ = hist.from.array_logs
        /\ intern_string_logs_ = hist.from.intern_string_logs
        /\ resolve_string_logs_ = hist.from.resolve_string_logs

\* An object log and an intern-string log were pending when it stopped.
C18_Witness ==
    /\ hist.op = "Rollback"
    /\ active
    /\ fatal # "none"
    /\ DOMAIN object_logs_ # {}
    /\ Len(intern_string_logs_) > 0


\* ==================================================================== threads
\* Several threads call the operations; an operation is a sequence of steps,
\* named by the source line the thread stands at, and a MutexLock is a step
\* that waits until the lock is free.
world == <<heap, strings, strong, weak, cache>>
flags == <<aborted_, abort_message_, rolling_back_, root_>>
logs == <<object_logs_, array_logs_, intern_string_logs_, resolve_string_logs_>>

Locks_Holder(l) == IF l = "log_lock_" THEN log_lock_ ELSE intern_table_lock_

\* Mutant: Rollback takes log_lock_ first.
Rollback_Locks_Reversed == <<"log_lock_", "intern_table_lock_">>

\* The locks Rollback takes, in the order of mu1 and mu2.
Rollback_Locks == <<"intern_table_lock_", "log_lock_">>

\* Mutant: the array logs are undone before the object logs.
Rollback_Phases_ArraysFirst ==
    <<"UndoArrayModifications", "UndoObjectModifications", "UndoInternStringTableModifications", "UndoResolveStringModifications">>

\* The four calls of Rollback, in program order.
Rollback_Phases ==
    <<"UndoObjectModifications", "UndoArrayModifications", "UndoInternStringTableModifications", "UndoResolveStringModifications">>

LogLockSites ==
    {"Abort:80", "IsAborted:109", "GetAbortMessage:118", "RecordWriteField32:220", "RecordWriteArray:252",
     "RecordResolveString:266", "LogInternedString:293", "VisitRoots:348",
     "WriteConstraint:124", "WriteValueConstraint:143", "ReadConstraint:160"}

\* The lock the thread waits for where it stands.
Wants(p) ==
    CASE p.at = "Rollback:301" -> Rollback_Locks[1]
      [] p.at = "Rollback:302" -> Rollback_Locks[2]
      [] p.at \in LogLockSites -> "log_lock_"
      [] p.at = "InternTable:lock" -> "intern_table_lock_"
      [] OTHER -> "none"

\* Where the thread stands once it has the lock.
AfterLock(at) ==
    CASE at = "Abort:80" -> "Abort:85"
      [] at = "IsAborted:109" -> "IsAborted:110"
      [] at = "GetAbortMessage:118" -> "GetAbortMessage:119"
      [] at = "RecordWriteField32:220" -> "RecordWriteField32:222"
      [] at = "RecordWriteArray:252" -> "RecordWriteArray:254"
      [] at = "RecordResolveString:266" -> "RecordResolveString:268"
      [] at = "InternTable:lock" -> "LogInternedString:292"
      [] at = "LogInternedString:293" -> "LogInternedString:295"
      [] at = "VisitRoots:348" -> "VisitRoots:349"
      [] at = "WriteConstraint:124" -> "WriteConstraint:128"
      [] at = "WriteValueConstraint:143" -> "WriteValueConstraint:144"
      [] at = "ReadConstraint:160" -> "ReadConstraint:161"
      [] at = "Rollback:301" -> "Rollback:302"
      [] at = "Rollback:302" -> "Rollback:303"

\* The fields of the transaction a step reads or writes.
Accesses(at) ==
    CASE at = "Abort:85" -> {"aborted_", "abort_message_"}
      [] at = "IsAborted:110" -> {"aborted_"}
      [] at = "IsRollingBack:114" -> {"rolling_back_"}
      [] at = "GetAbortMessage:119" -> {"abort_message_"}
      [] at = "RecordWriteField32:222" -> {"assert_no_new_records_reason_", "object_logs_"}
      [] at = "RecordWriteArray:254" -> {"assert_no_new_records_reason_", "array_logs_"}
      [] at = "RecordResolveString:268" -> {"assert_no_new_records_reason_", "resolve_string_logs_"}
      [] at = "LogInternedString:295" -> {"assert_no_new_records_reason_", "intern_string_logs_"}
      [] at = "VisitRoots:349" -> {"root_", "object_logs_", "array_logs_", "intern_string_logs_", "resolve_string_logs_"}
      [] at \in {"WriteConstraint:128", "ReadConstraint:161"} -> {"root_"}
      [] at \in {"Rollback:303", "Rollback:309"} -> {"rolling_back_"}
      [] at = "Rollback:305" -> {"object_logs_", "array_logs_", "intern_string_logs_", "resolve_string_logs_"}
      [] OTHER -> {}

Writes(at) ==
    CASE at \in {"IsAborted:110", "IsRollingBack:114", "GetAbortMessage:119", "WriteConstraint:128", "ReadConstraint:161"} -> {}
      [] OTHER -> Accesses(at) \ {"assert_no_new_records_reason_"}

\* Two threads are about to touch one field, one of them to write it, and
\* they hold no lock in common.
Racing(t, field) ==
    \E u \in Threads \ {t} :
        /\ field \in Writes(pc[u].at)
        /\ ~(log_lock_ = t /\ log_lock_ = u)

Enter(t, p) ==
    /\ fatal = "none"
    /\ pc[t] = Idle
    /\ pc' = [pc EXCEPT ![t] = p]

Return(t) == pc' = [pc EXCEPT ![t] = Idle]

\* ------------------------------------------------ calls: the thread enters
CallAbort(t, abort_message) ==
    /\ Enter(t, [at |-> "Abort:80", held |-> <<>>, abort_message |-> abort_message])
    /\ UNCHANGED <<world, flags, logs, active, fatal, orig, nops, hist, strict_, heap_, log_lock_, intern_table_lock_, calls, given, assert_no_new_records_reason_>>

CallIsAborted(t) ==
    /\ Enter(t, [at |-> "IsAborted:109", held |-> <<>>])
    /\ UNCHANGED <<world, flags, logs, active, fatal, orig, nops, hist, strict_, heap_, log_lock_, intern_table_lock_, calls, given, assert_no_new_records_reason_>>

CallIsRollingBack(t) ==
    /\ Enter(t, [at |-> "IsRollingBack:114", held |-> <<>>])
    /\ UNCHANGED <<world, flags, logs, active, fatal, orig, nops, hist, strict_, heap_, log_lock_, intern_table_lock_, calls, given, assert_no_new_records_reason_>>

CallGetAbortMessage(t) ==
    /\ Enter(t, [at |-> "GetAbortMessage:118", held |-> <<>>])
    /\ UNCHANGED <<world, flags, logs, active, fatal, orig, nops, hist, strict_, heap_, log_lock_, intern_table_lock_, calls, given, assert_no_new_records_reason_>>

CallVisitRoots(t) ==
    /\ Enter(t, [at |-> "VisitRoots:348", held |-> <<>>])
    /\ UNCHANGED <<world, flags, logs, active, fatal, orig, nops, hist, strict_, heap_, log_lock_, intern_table_lock_, calls, given, assert_no_new_records_reason_>>

CallRollback(t) ==
    /\ Enter(t, [at |-> "Rollback:301", held |-> <<>>])
    /\ UNCHANGED <<world, flags, logs, active, fatal, orig, nops, hist, strict_, heap_, log_lock_, intern_table_lock_, calls, given, assert_no_new_records_reason_>>

\* The constraint checks, asked about a class.
CallConstraint(t, check, obj) ==
    /\ Enter(t, [at |-> check, held |-> <<>>, obj |-> obj])
    /\ UNCHANGED <<world, flags, logs, active, fatal, orig, nops, hist, strict_, heap_, log_lock_, intern_table_lock_, calls, given, assert_no_new_records_reason_>>

\* The accessors: the write to the live object, then the Record* call.
CallSetField32(t, obj, off, new, vol) ==
    /\ CanRecord
    /\ heap[obj].type # "free"
    /\ FieldKindAt(heap[obj].type, off) = "k32Bits"
    /\ Enter(t, [at |-> "RecordWriteField32:220", held |-> <<>>, obj |-> obj, field_offset |-> off, value |-> heap[obj].f[off], is_volatile |-> vol])
    /\ heap' = [heap EXCEPT ![obj].f[off] = new]
    /\ nops' = nops + 1
    /\ UNCHANGED <<strings, strong, weak, cache, flags, logs, active, fatal, orig, hist, strict_, heap_, log_lock_, intern_table_lock_, calls, given, assert_no_new_records_reason_>>

CallArraySet(t, array, index, new) ==
    /\ CanRecord
    /\ heap[array].type = "array"
    /\ Enter(t, [at |-> "RecordWriteArray:252", held |-> <<>>, array |-> array, index |-> index, value |-> ElementToU64(heap[array].ct, heap[array].e[index])])
    /\ heap' = [heap EXCEPT ![array].e[index] = new]
    /\ nops' = nops + 1
    /\ UNCHANGED <<strings, strong, weak, cache, flags, logs, active, fatal, orig, hist, strict_, heap_, log_lock_, intern_table_lock_, calls, given, assert_no_new_records_reason_>>

CallResolveString(t, dex_cache, string_idx, s) ==
    /\ CanRecord
    /\ cache[dex_cache].live
    /\ cache[dex_cache].strings[string_idx] = NULL
    /\ s \in strings
    /\ Enter(t, [at |-> "RecordResolveString:266", held |-> <<>>, dex_cache |-> dex_cache, string_idx |-> string_idx])
    /\ cache' = [cache EXCEPT ![dex_cache].strings[string_idx] = s]
    /\ nops' = nops + 1
    /\ UNCHANGED <<heap, strings, strong, weak, flags, logs, active, fatal, orig, hist, strict_, heap_, log_lock_, intern_table_lock_, calls, given, assert_no_new_records_reason_>>

\* InternTable::InsertStrong: it takes the table's lock, inserts and records.
CallInsertStrong(t, s) ==
    /\ CanRecord
    /\ s \in strings \ strong
    /\ Enter(t, [at |-> "InternTable:lock", held |-> <<>>, s |-> s])
    /\ nops' = nops + 1
    /\ UNCHANGED <<world, flags, logs, active, fatal, orig, hist, strict_, heap_, log_lock_, intern_table_lock_, calls, given, assert_no_new_records_reason_>>

\* ------------------------------------------------------------- MutexLock
Acquire(t) ==
    /\ fatal = "none"
    /\ pc[t].at # "idle"
    /\ LET l == Wants(pc[t])
       IN  /\ l # "none"
           /\ Locks_Holder(l) = NoThread
           /\ IF l = "log_lock_"
              THEN log_lock_' = t /\ UNCHANGED intern_table_lock_
              ELSE intern_table_lock_' = t /\ UNCHANGED log_lock_
           /\ pc' = [pc EXCEPT ![t] = [pc[t] EXCEPT !.at = AfterLock(pc[t].at), !.held = Append(pc[t].held, l)]]
    /\ UNCHANGED <<world, flags, logs, active, fatal, orig, nops, hist, strict_, heap_, calls, given, assert_no_new_records_reason_>>

Unlock(t) ==
    /\ log_lock_' = (IF log_lock_ = t THEN NoThread ELSE log_lock_)
    /\ intern_table_lock_' = (IF intern_table_lock_ = t THEN NoThread ELSE intern_table_lock_)

\* ------------------------------------------- bodies, run under the lock(s)
AbortLocked(t) ==
    /\ pc[t].at = "Abort:85"
    /\ Abort(pc[t].abort_message)
    /\ Unlock(t)
    /\ Return(t)
    /\ UNCHANGED <<strict_, heap_, calls, given, assert_no_new_records_reason_>>

IsAbortedLocked(t) ==
    /\ fatal = "none"
    /\ pc[t].at = "IsAborted:110"
    /\ hist' = [op |-> "IsAborted", result |-> aborted_]
    /\ Unlock(t)
    /\ Return(t)
    /\ UNCHANGED <<world, flags, logs, active, fatal, orig, nops, strict_, heap_, calls, given, assert_no_new_records_reason_>>

GetAbortMessageLocked(t) ==
    /\ fatal = "none"
    /\ pc[t].at = "GetAbortMessage:119"
    /\ hist' = [op |-> "GetAbortMessage", result |-> abort_message_]
    /\ Unlock(t)
    /\ Return(t)
    /\ UNCHANGED <<world, flags, logs, active, fatal, orig, nops, strict_, heap_, calls, given, assert_no_new_records_reason_>>

ConstraintLocked(t) ==
    /\ fatal = "none"
    /\ pc[t].at \in {"WriteConstraint:128", "WriteValueConstraint:144", "ReadConstraint:161"}
    /\ hist' = [op |-> pc[t].at,
                blocked |-> CASE pc[t].at = "WriteConstraint:128" -> WriteConstraint(pc[t].obj)
                              [] pc[t].at = "WriteValueConstraint:144" -> WriteValueConstraint(pc[t].obj)
                              [] pc[t].at = "ReadConstraint:161" -> ReadConstraint(pc[t].obj)]
    /\ Unlock(t)
    /\ Return(t)
    /\ UNCHANGED <<world, flags, logs, active, fatal, orig, nops, strict_, heap_, calls, given, assert_no_new_records_reason_>>

\* IsRollingBack returns rolling_back_ and takes no lock: while another thread
\* is about to write the flag the read is a data race and may return either
\* value.
IsRollingBack(t) ==
    /\ fatal = "none"
    /\ pc[t].at = "IsRollingBack:114"
    /\ \E result \in (IF Racing(t, "rolling_back_") THEN BOOLEAN ELSE {rolling_back_}) :
           hist' = [op |-> "IsRollingBack", result |-> result]
    /\ Return(t)
    /\ UNCHANGED <<world, flags, logs, active, fatal, orig, nops, strict_, heap_, log_lock_, intern_table_lock_, calls, given, assert_no_new_records_reason_>>

RecordLocked(t) ==
    /\ fatal = "none"
    /\ pc[t].at \in {"RecordWriteField32:222", "RecordWriteArray:254", "RecordResolveString:268"}
    /\ LET p == pc[t]
       IN  CASE p.at = "RecordWriteField32:222" ->
                    /\ RecordWriteField32(p.obj, p.field_offset, p.value, p.is_volatile)
                    /\ UNCHANGED <<array_logs_, resolve_string_logs_>>
             [] p.at = "RecordWriteArray:254" ->
                    /\ RecordWriteArray(p.array, p.index, p.value)
                    /\ UNCHANGED <<object_logs_, resolve_string_logs_>>
             [] p.at = "RecordResolveString:268" ->
                    /\ RecordResolveString(p.dex_cache, p.string_idx)
                    /\ UNCHANGED <<object_logs_, array_logs_>>
    /\ hist' = [op |-> "none"]
    /\ Unlock(t)
    /\ Return(t)
    /\ UNCHANGED <<world, flags, intern_string_logs_, active, fatal, orig, nops, strict_, heap_, calls, given, assert_no_new_records_reason_>>

\* Under the table's lock: the insertion, then LogInternedString's
\* AssertExclusiveHeld. A string another thread inserted meanwhile is found
\* and nothing is recorded.
InternTableLocked(t) ==
    /\ fatal = "none"
    /\ pc[t].at = "LogInternedString:292"
    /\ IF pc[t].s \in strong \/ pc[t].s \notin strings
       THEN /\ Unlock(t)
            /\ Return(t)
            /\ UNCHANGED <<strong, fatal>>
       ELSE /\ strong' = strong \cup {pc[t].s}
            /\ fatal' = (IF intern_table_lock_ = t THEN fatal ELSE "LogInternedString: AssertExclusiveHeld(intern_table_lock_)")
            /\ pc' = [pc EXCEPT ![t].at = "LogInternedString:293"]
            /\ UNCHANGED <<log_lock_, intern_table_lock_>>
    /\ UNCHANGED <<heap, strings, weak, cache, flags, logs, active, orig, nops, hist, strict_, heap_, calls, given, assert_no_new_records_reason_>>

LogInternedStringLocked(t) ==
    /\ fatal = "none"
    /\ pc[t].at = "LogInternedString:295"
    /\ RecordStrongStringInsertion(pc[t].s)
    /\ hist' = [op |-> "none"]
    /\ Unlock(t)
    /\ Return(t)
    /\ UNCHANGED <<world, flags, object_logs_, array_logs_, resolve_string_logs_, active, fatal, orig, nops, strict_, heap_, calls, given, assert_no_new_records_reason_>>

\* The collector also updates the references the other threads hold on their
\* stacks.
RelocateThread(p, pi) ==
    CASE p.at \in {"RecordWriteField32:220", "RecordWriteField32:222"} -> [p EXCEPT !.obj = pi[@]]
      [] p.at \in {"RecordWriteArray:252", "RecordWriteArray:254"} -> [p EXCEPT !.array = pi[@]]
      [] p.at \in {"RecordResolveString:266", "RecordResolveString:268"} -> [p EXCEPT !.dex_cache = pi[@]]
      [] p.at \in {"InternTable:lock", "LogInternedString:292", "LogInternedString:293", "LogInternedString:295"} -> [p EXCEPT !.s = pi[@]]
      [] p.at \in {"WriteConstraint:124", "WriteConstraint:128", "WriteValueConstraint:143", "WriteValueConstraint:144", "ReadConstraint:160", "ReadConstraint:161"} -> [p EXCEPT !.obj.addr = pi[@]]
      [] OTHER -> p

VisitRootsLocked(t, pi, object_roots, array_roots) ==
    /\ pc[t].at = "VisitRoots:349"
    /\ VisitRoots(pi, object_roots, array_roots)
    /\ Unlock(t)
    /\ pc' = [u \in Threads |-> IF u = t \/ fatal' # "none" THEN (IF u = t THEN Idle ELSE pc[u]) ELSE RelocateThread(pc[u], pi)]
    /\ UNCHANGED <<strict_, heap_, calls, given, assert_no_new_records_reason_>>

\* ------------------------------------------------------ Rollback, by line
\* Mutant: the transaction's lock covers the assignment only.
Rollback_SetFlag_LockDropped(t) ==
    /\ fatal = "none"
    /\ pc[t].at = "Rollback:303"
    /\ rolling_back_' = TRUE
    /\ log_lock_' = NoThread
    /\ pc' = [pc EXCEPT ![t] = [at |-> "Rollback:304", held |-> pc[t].held, from |-> Snapshot, done |-> <<>>]]
    /\ UNCHANGED <<world, aborted_, abort_message_, root_, logs, active, fatal, orig, nops, hist, strict_, heap_, intern_table_lock_, calls, given, assert_no_new_records_reason_>>

Rollback_SetFlag(t) ==
    /\ fatal = "none"
    /\ pc[t].at = "Rollback:303"
    /\ rolling_back_' = TRUE
    /\ pc' = [pc EXCEPT ![t] = [at |-> "Rollback:304", held |-> pc[t].held, from |-> Snapshot, done |-> <<>>]]
    /\ UNCHANGED <<world, aborted_, abort_message_, root_, logs, active, fatal, orig, nops, hist, strict_, heap_, log_lock_, intern_table_lock_, calls, given, assert_no_new_records_reason_>>

Rollback_Check(t) ==
    /\ fatal = "none"
    /\ pc[t].at = "Rollback:304"
    /\ IF active
       THEN fatal' = "Rollback: CHECK(!IsActiveTransaction())" /\ UNCHANGED pc
       ELSE pc' = [pc EXCEPT ![t] = [pc[t] EXCEPT !.at = "Rollback:305", !.from = Snapshot]] /\ UNCHANGED fatal
    /\ UNCHANGED <<world, flags, logs, active, orig, nops, hist, strict_, heap_, log_lock_, intern_table_lock_, calls, given, assert_no_new_records_reason_>>

\* One of the four calls: the next one of Rollback_Phases.
Rollback_Undo(t) ==
    /\ fatal = "none"
    /\ pc[t].at = "Rollback:305"
    /\ LET phase == Rollback_Phases[Len(pc[t].done) + 1]
           done == Append(pc[t].done, phase)
       IN  /\ CASE phase = "UndoObjectModifications" ->
                       LET o == UndoObjectModifications(heap, object_logs_)
                       IN  /\ heap' = o.heap
                           /\ object_logs_' = o.logs
                           /\ UNCHANGED <<strong, weak, cache, array_logs_, intern_string_logs_, resolve_string_logs_>>
                [] phase = "UndoArrayModifications" ->
                       LET a == UndoArrayModifications(heap, array_logs_)
                       IN  /\ heap' = a.heap
                           /\ array_logs_' = a.logs
                           /\ UNCHANGED <<strong, weak, cache, object_logs_, intern_string_logs_, resolve_string_logs_>>
                [] phase = "UndoInternStringTableModifications" ->
                       LET i == UndoInternStringTableModifications([strong |-> strong, weak |-> weak], intern_string_logs_)
                       IN  /\ strong' = i.table.strong
                           /\ weak' = i.table.weak
                           /\ intern_string_logs_' = i.logs
                           /\ UNCHANGED <<heap, cache, object_logs_, array_logs_, resolve_string_logs_>>
                [] phase = "UndoResolveStringModifications" ->
                       LET r == UndoResolveStringModifications(cache, resolve_string_logs_)
                       IN  /\ cache' = r.cache
                           /\ resolve_string_logs_' = r.logs
                           /\ UNCHANGED <<heap, strong, weak, object_logs_, array_logs_, intern_string_logs_>>
           /\ pc' = [pc EXCEPT ![t] = [pc[t] EXCEPT !.done = done, !.at = IF Len(done) = Len(Rollback_Phases) THEN "Rollback:309" ELSE "Rollback:305"]]
    /\ UNCHANGED <<strings, flags, active, fatal, orig, nops, hist, strict_, heap_, log_lock_, intern_table_lock_, calls, given, assert_no_new_records_reason_>>

\* Mutant: a rollback starts the transaction afresh, abort state included.
Rollback_ClearFlag_ClearsAbort(t) ==
    /\ fatal = "none"
    /\ pc[t].at = "Rollback:309"
    /\ rolling_back_' = FALSE
    /\ aborted_' = FALSE
    /\ abort_message_' = ""
    /\ hist' = [op |-> "Rollback", from |-> pc[t].from]
    /\ Unlock(t)
    /\ Return(t)
    /\ UNCHANGED <<world, root_, logs, active, fatal, orig, nops, strict_, heap_, calls, given, assert_no_new_records_reason_>>

Rollback_ClearFlag(t) ==
    /\ fatal = "none"
    /\ pc[t].at = "Rollback:309"
    /\ rolling_back_' = FALSE
    /\ hist' = [op |-> "Rollback", from |-> pc[t].from]
    /\ Unlock(t)
    /\ Return(t)
    /\ UNCHANGED <<world, aborted_, abort_message_, root_, logs, active, fatal, orig, nops, strict_, heap_, calls, given, assert_no_new_records_reason_>>

ExitTransactionModeThreads ==
    /\ ExitTransactionMode
    /\ UNCHANGED <<strict_, heap_, log_lock_, intern_table_lock_, pc, calls, given, assert_no_new_records_reason_>>

\* The collector's moves while threads run: none, or the two lowest addresses
\* change places.
ThreadRelocations == {pi \in Relocations : \A a \in Addr : a > 2 => pi[a] = a}

NextThreads ==
    \/ \E t \in Threads : CallAbort(t, "first")
    \/ \E t \in Threads : CallIsAborted(t)
    \/ \E t \in Threads : CallIsRollingBack(t)
    \/ \E t \in Threads : CallGetAbortMessage(t)
    \/ \E t \in Threads : CallVisitRoots(t)
    \/ \E t \in Threads : CallRollback(t)
    \/ \E t \in Threads, obj \in Addr, off \in Offsets : CallSetField32(t, obj, off, V(42), FALSE)
    \/ \E t \in Threads, array \in Addr : CallArraySet(t, array, 0, V(7))
    \/ \E t \in Threads, c \in Addr : CallResolveString(t, c, 1, 1)
    \/ \E t \in Threads, s \in Addr : CallInsertStrong(t, s)
    \/ \E t \in Threads : Acquire(t)
    \/ \E t \in Threads : AbortLocked(t)
    \/ \E t \in Threads : IsAbortedLocked(t)
    \/ \E t \in Threads : GetAbortMessageLocked(t)
    \/ \E t \in Threads : IsRollingBack(t)
    \/ \E t \in Threads : RecordLocked(t)
    \/ \E t \in Threads : InternTableLocked(t)
    \/ \E t \in Threads : LogInternedStringLocked(t)
    \/ \E t \in Threads, pi \in ThreadRelocations : \E object_roots \in MovingRoots(object_logs_, pi), array_roots \in MovingRoots(array_logs_, pi) : VisitRootsLocked(t, pi, object_roots, array_roots)
    \/ \E t \in Threads : Rollback_SetFlag(t)
    \/ \E t \in Threads : Rollback_Check(t)
    \/ \E t \in Threads : Rollback_Undo(t)
    \/ \E t \in Threads : Rollback_ClearFlag(t)
    \/ ExitTransactionModeThreads

SpecThreads == Init /\ [][NextThreads]_vars

\* Rollback among the operations the transaction's lock keeps out of it.
NextRollbackThreads ==
    \/ \E t \in Threads : CallRollback(t)
    \/ \E t \in Threads, check \in {"WriteConstraint:124", "WriteValueConstraint:143", "ReadConstraint:160"} : CallConstraint(t, check, ClassRef(root_))
    \/ \E t \in Threads : CallAbort(t, "first")
    \/ \E t \in Threads : CallVisitRoots(t)
    \/ \E t \in Threads, obj \in Addr, off \in Offsets : CallSetField32(t, obj, off, V(42), FALSE)
    \/ \E t \in Threads, array \in Addr : CallArraySet(t, array, 0, V(7))
    \/ \E t \in Threads : Acquire(t)
    \/ \E t \in Threads : AbortLocked(t)
    \/ \E t \in Threads : ConstraintLocked(t)
    \/ \E t \in Threads : RecordLocked(t)
    \/ \E t \in Threads, pi \in ThreadRelocations : \E object_roots \in MovingRoots(object_logs_, pi), array_roots \in MovingRoots(array_logs_, pi) : VisitRootsLocked(t, pi, object_roots, array_roots)
    \/ \E t \in Threads : Rollback_SetFlag(t)
    \/ \E t \in Threads : Rollback_Check(t)
    \/ \E t \in Threads : Rollback_Undo(t)
    \/ \E t \in Threads : Rollback_ClearFlag(t)
    \/ ExitTransactionModeThreads

SpecRollbackThreads == Init /\ [][NextRollbackThreads]_vars

\* Abort, with either message, and the reads of what it stores, around a
\* Rollback.
NextAbortThreads ==
    \/ \E t \in Threads, abort_message \in Messages : CallAbort(t, abort_message)
    \/ \E t \in Threads : CallIsAborted(t)
    \/ \E t \in Threads : CallGetAbortMessage(t)
    \/ \E t \in Threads : CallRollback(t)
    \/ \E t \in Threads, obj \in Addr, off \in Offsets : CallSetField32(t, obj, off, V(42), FALSE)
    \/ \E t \in Threads : Acquire(t)
    \/ \E t \in Threads : AbortLocked(t)
    \/ \E t \in Threads : IsAbortedLocked(t)
    \/ \E t \in Threads : GetAbortMessageLocked(t)
    \/ \E t \in Threads : RecordLocked(t)
    \/ \E t \in Threads : Rollback_SetFlag(t)
    \/ \E t \in Threads : Rollback_Check(t)
    \/ \E t \in Threads : Rollback_Undo(t)
    \/ \E t \in Threads : Rollback_ClearFlag(t)
    \/ ExitTransactionModeThreads

SpecAbortThreads == Init /\ [][NextAbortThreads]_vars

\* ----------------------------------------------------------------------
\* C14: every read and write of the transaction's mutable state, the reads
\* by IsAborted, IsRollingBack and GetAbortMessage included, is made by a
\* thread that holds the transaction's lock, so no accessor reads a flag
\* while Rollback on another thread writes it.
C14_StateAccessUnderLock ==
    /\ \A t \in Threads : Accesses(pc[t].at) # {} => log_lock_ = t
    /\ \A t \in Threads : \A field \in Accesses(pc[t].at) : ~Racing(t, field)

\* ----------------------------------------------------------------------
\* C19: Rollback sets rolling_back_ before the first undo and clears it after
\* the last; it undoes the object logs, then the array logs, then the intern
\* string logs, then the resolve string logs, and every collection is empty
\* once its own phase is over and untouched until then, like what it
\* restores once the undoing has begun; outside Rollback the flag is false.
PhaseOrder ==
    <<"UndoObjectModifications", "UndoArrayModifications", "UndoInternStringTableModifications", "UndoResolveStringModifications">>

InsideRollback(t) == pc[t].at \in {"Rollback:304", "Rollback:305", "Rollback:309"}

\* Past the CHECK of line 304: the engine has left transaction mode, so no
\* accessor writes any more.
Undoing(t) == pc[t].at \in {"Rollback:305", "Rollback:309"}

PhaseDone(t, phase) == \E k \in DOMAIN pc[t].done : pc[t].done[k] = phase

C19_RollbackPhaseOrder ==
    /\ \A t \in Threads : InsideRollback(t) =>
           LET from == pc[t].from
           IN  /\ rolling_back_
               /\ \E k \in 0..Len(PhaseOrder) : pc[t].done = SubSeq(PhaseOrder, 1, k)
               /\ pc[t].at = "Rollback:309" <=> pc[t].done = PhaseOrder
               /\ IF PhaseDone(t, "UndoObjectModifications")
                  THEN DOMAIN object_logs_ = {}
                  ELSE object_logs_ = from.object_logs /\ (Undoing(t) => \A a \in Addr : heap[a].f = from.heap[a].f)
               /\ IF PhaseDone(t, "UndoArrayModifications")
                  THEN DOMAIN array_logs_ = {}
                  ELSE array_logs_ = from.array_logs /\ (Undoing(t) => \A a \in Addr : heap[a].e = from.heap[a].e)
               /\ IF PhaseDone(t, "UndoInternStringTableModifications")
                  THEN intern_string_logs_ = <<>>
                  ELSE intern_string_logs_ = from.intern_string_logs /\ strong = from.strong /\ weak = from.weak
               /\ IF PhaseDone(t, "UndoResolveStringModifications")
                  THEN resolve_string_logs_ = <<>>
                  ELSE resolve_string_logs_ = from.resolve_string_logs /\ (Undoing(t) => cache = from.cache)
    /\ (\A t \in Threads : ~InsideRollback(t)) => ~rolling_back_
    /\ hist.op = "IsRollingBack" /\ hist.result => \E t \in Threads : pc[t].at \in {"Rollback:303", "Rollback:304", "Rollback:305", "Rollback:309"}

\* Rollback stands between the array phase and the intern phase, with object
\* logs and array logs behind it and an intern log still to undo.
C19_Witness ==
    \E t \in Threads :
        /\ pc[t].at = "Rollback:305"
        /\ pc[t].done = <<"UndoObjectModifications", "UndoArrayModifications">>
        /\ DOMAIN pc[t].from.object_logs # {}
        /\ DOMAIN pc[t].from.array_logs # {}
        /\ fatal = "none"

\* ----------------------------------------------------------------------
\* C20: a thread that holds both locks took the intern table's lock first;
\* LogInternedString runs with the intern table's lock held by its caller;
\* no thread waits for the intern table's lock while it holds the
\* transaction's lock; and no two threads wait for each other.
WaitsFor(t, u) ==
    /\ pc[t].at # "idle"
    /\ Wants(pc[t]) # "none"
    /\ Locks_Holder(Wants(pc[t])) = u

C20_LockOrder ==
    /\ \A t \in Threads : pc[t].at # "idle" =>
           /\ pc[t].held \in {<<>>, <<"log_lock_">>, <<"intern_table_lock_">>, <<"intern_table_lock_", "log_lock_">>}
           /\ (log_lock_ = t) <=> (\E k \in DOMAIN pc[t].held : pc[t].held[k] = "log_lock_")
           /\ (intern_table_lock_ = t) <=> (\E k \in DOMAIN pc[t].held : pc[t].held[k] = "intern_table_lock_")
           /\ Wants(pc[t]) = "intern_table_lock_" => log_lock_ # t
           /\ pc[t].at \in {"LogInternedString:292", "LogInternedString:293", "LogInternedString:295"} => intern_table_lock_ = t
    /\ \A t \in Threads : pc[t].at = "idle" => log_lock_ # t /\ intern_table_lock_ # t
    /\ \A t, u \in Threads : ~(t # u /\ WaitsFor(t, u) /\ WaitsFor(u, t))
    /\ fatal # "LogInternedString: AssertExclusiveHeld(intern_table_lock_)"

\* One thread records an interned string with both locks in hand while
\* another waits, at the top of Rollback, for the intern table's lock.
C20_Witness ==
    \E t, u \in Threads :
        /\ pc[t].at = "LogInternedString:295"
        /\ pc[t].held = <<"intern_table_lock_", "log_lock_">>
        /\ pc[u].at = "Rollback:301"
        /\ WaitsFor(u, t)


\* ============================================ ScopedAssertNoNewTransactionRecords
\* The debug build: kIsDebugBuild is true and every DCHECK is compiled in.
Reasons == {"outer scope", "inner scope"}

InstallAssertion(reason) ==
    /\ fatal = "none"
    /\ hist' = [op |-> "InstallAssertion", reason |-> reason, installed |-> assert_no_new_records_reason_, transaction |-> active]
    /\ IF active
       THEN IF assert_no_new_records_reason_ = NoReason
            THEN assert_no_new_records_reason_' = reason /\ UNCHANGED fatal
            ELSE fatal' = "InstallAssertion: CHECK(assert_no_new_records_reason_ == nullptr)" /\ UNCHANGED assert_no_new_records_reason_
       ELSE UNCHANGED <<assert_no_new_records_reason_, fatal>>
    /\ UNCHANGED <<world, flags, logs, active, orig, nops, calls, given>>

\* RemoveAssertion(transaction), with the transaction InstallAssertion
\* returned: the runtime's transaction is still this one.
RemoveAssertion ==
    /\ fatal = "none"
    /\ hist' = [op |-> "RemoveAssertion", installed |-> assert_no_new_records_reason_]
    /\ IF assert_no_new_records_reason_ # NoReason
       THEN assert_no_new_records_reason_' = NoReason /\ UNCHANGED fatal
       ELSE fatal' = "RemoveAssertion: CHECK(assert_no_new_records_reason_ != nullptr)" /\ UNCHANGED assert_no_new_records_reason_
    /\ UNCHANGED <<world, flags, logs, active, orig, nops, calls, given>>

\* Mutant: the Record* call does not look at the reason.
RecordChecked_Release(record) == record

\* DCHECK(assert_no_new_records_reason_ == nullptr), the first statement of
\* every Record* call under the lock.
RecordChecked(record) ==
    IF assert_no_new_records_reason_ = NoReason
    THEN record
    ELSE /\ ENABLED record
         /\ fatal' = "Record: DCHECK(assert_no_new_records_reason_ == nullptr)"
         /\ nops' = nops + 1
         /\ hist' = [op |-> "none"]
         /\ UNCHANGED <<world, flags, logs, active, orig, calls, given, strict_, heap_, log_lock_, intern_table_lock_, pc, assert_no_new_records_reason_>>

NextGuard ==
    \/ \E reason \in Reasons : Uncontended /\ InstallAssertion(reason)
    \/ Uncontended /\ RemoveAssertion
    \/ \E obj \in Addr, off \in Offsets, kind \in Kinds, new \in Values32, vol \in BOOLEAN : RecordChecked(Unasserted /\ SetFieldKind(obj, off, kind, new, vol))
    \/ \E array \in Addr, index \in Indices, new \in ValuesElem : RecordChecked(Sequential /\ ArraySet(array, index, new))
    \/ \E s \in Addr : RecordChecked(Sequential /\ InsertStrong(s))
    \/ \E s \in Addr : RecordChecked(Sequential /\ InsertWeak(s))
    \/ \E s \in Addr : RecordChecked(Sequential /\ RemoveStrong(s))
    \/ \E s \in Addr : RecordChecked(Sequential /\ RemoveWeak(s))
    \/ \E c \in Addr, i \in Slots, s \in Addr : RecordChecked(Sequential /\ ResolveString(c, i, s))
    \/ Sequential /\ ExitTransactionMode

SpecGuard == Init /\ [][NextGuard]_vars


\* ======================================================= the last five claims
\* C21: whatever Record* calls and VisitRoots passes came before it, Rollback
\* writes at the current identities: seen through the identities of
\* construction, every field (the class slot and an array's length apart) and
\* every element holds its pre-transaction value, a reference field names the
\* current identity of its pre-transaction referent, and no object or cell
\* without a log under its current identity is written.
C21_RollbackAfterRelocation ==
    RolledBack =>
        /\ \A a \in Addr : \A off \in Offsets :
              ~Protected(heap, a, off) =>
                  NormWord(FieldKindAt(heap[a].type, off), heap[a].f[off], orig) = PreField(a, off)
        /\ \A a \in Addr : \A i \in Indices : heap[a].e[i] = PreElem(a, i)
        /\ \A a \in Addr :
              heap[a] # hist.from.heap[a] => a \in DOMAIN hist.from.object_logs \cup DOMAIN hist.from.array_logs
        /\ \A k \in DOMAIN hist.from.object_logs \cup DOMAIN hist.from.array_logs : heap[k].type # "free"

\* X was logged for its reference field, whose old value names Y; X and Y
\* were both moved; Rollback restored the field of X where X is now, with
\* the address Y has now.
C21_Witness ==
    /\ RolledBack
    /\ \E k \in DOMAIN hist.from.object_logs :
          /\ orig[k] # k
          /\ 12 \in DOMAIN hist.from.object_logs[k]
          /\ hist.from.object_logs[k][12].kind = "kReference"
          /\ hist.from.heap[k].f[12] # heap[k].f[12]
          /\ AsPointer(heap[k].f[12]) \in Addr
          /\ orig[AsPointer(heap[k].f[12])] # AsPointer(heap[k].f[12])
          /\ orig[AsPointer(heap[k].f[12])] = AsPointer(PreField(k, 12))

C23_AbortOnlyMarks ==
    /\ [][/\ hist'.op = "Abort" =>
                /\ UNCHANGED <<heap, strings, strong, weak, cache, active, rolling_back_, root_, logs, fatal, orig, nops>>
                /\ aborted_'
                /\ aborted_ => abort_message_' = abort_message_
          /\ aborted_ /\ nops' = nops + 1 =>
                \A a \in Addr : \A off \in Offsets :
                    heap'[a].f[off] # heap[a].f[off] =>
                        /\ a \in DOMAIN object_logs_'
                        /\ off \in DOMAIN object_logs_'[a]
                        /\ (a \notin DOMAIN object_logs_ \/ off \notin DOMAIN object_logs_[a]) =>
                               object_logs_'[a][off].value = heap[a].f[off]]_vars
    /\ [](RolledBack /\ aborted_ =>
             /\ DOMAIN object_logs_ = {}
             /\ \A k \in DOMAIN hist.from.object_logs : \A off \in DOMAIN hist.from.object_logs[k] :
                   ~Protected(heap, k, off) =>
                       heap[k].f[off] = NarrowTo(hist.from.object_logs[k][off].kind, hist.from.object_logs[k][off].value))

\* The transaction was aborted with nothing recorded, and the write made
\* afterwards is in the object logs.
C23_Witness ==
    /\ aborted_
    /\ active
    /\ hist.op = "none"
    /\ nops = 1
    /\ \E k \in DOMAIN object_logs_ : heap[k].f[LengthOffset] = V(42) /\ object_logs_[k][LengthOffset].value = V(0)

\* ----------------------------------------------------------------------
\* C24: from the assignment of rolling_back_ before the first undo to the
\* one after the last clear, the thread in Rollback holds the transaction's
\* lock, and no other thread stands inside the locked part of a Record*
\* call, of Abort, of a constraint check, of VisitRoots or of another
\* Rollback: such a call runs before the four phases or after them, and
\* none sees the logs half undone.
LockedParts ==
    {"Abort:85", "IsAborted:110", "GetAbortMessage:119", "RecordWriteField32:222", "RecordWriteArray:254",
     "RecordResolveString:268", "LogInternedString:295", "VisitRoots:349",
     "WriteConstraint:128", "WriteValueConstraint:144", "ReadConstraint:161",
     "Rollback:303", "Rollback:304", "Rollback:305", "Rollback:309"}

HalfUndone(t) == pc[t].at = "Rollback:305" /\ Len(pc[t].done) \in 1..3

C25_AbortedMonotone ==
    /\ [][/\ aborted_ => (aborted_' /\ abort_message_' = abort_message_)
          /\ (aborted_' # aborted_ \/ abort_message_' # abort_message_) =>
                (hist'.op = "Abort" /\ aborted_' /\ abort_message_' = hist'.abort_message)]_vars
    /\ [](aborted_ /\ hist.op = "IsAborted" => hist.result)
    /\ [](aborted_ /\ hist.op = "GetAbortMessage" => hist.result = abort_message_)
    /\ [](hist.op = "Rollback" /\ fatal = "none" =>
             LET o == UndoObjectModifications(hist.from.heap, hist.from.object_logs)
                 a == UndoArrayModifications(o.heap, hist.from.array_logs)
                 i == UndoInternStringTableModifications([strong |-> hist.from.strong, weak |-> hist.from.weak], hist.from.intern_string_logs)
                 r == UndoResolveStringModifications(hist.from.cache, hist.from.resolve_string_logs)
             IN  /\ heap = a.heap
                 /\ strong = i.table.strong
                 /\ weak = i.table.weak
                 /\ cache = r.cache
                 /\ logs = <<o.logs, a.logs, i.logs, r.logs>>)

\* An aborted transaction was rolled back: the recorded write is undone and
\* the transaction is still aborted, with its message.
C25_Witness ==
    /\ hist.op = "Rollback"
    /\ fatal = "none"
    /\ aborted_
    /\ abort_message_ = "second"
    /\ DOMAIN hist.from.object_logs # {}
    /\ heap # hist.from.heap

====
